---- MODULE Spec2Model ----
(***************************************************************************)
(* Verification model of the resume relevance checker:                     *)
(*   core/analyzer/hard_match_analyzer.py   HardMatchAnalyzer              *)
(*   core/analyzer/semantic_match_analyzer.py SemanticMatchAnalyzer        *)
(*   core/scoring/score_calculator.py       ScoreCalculator                *)
(*   app/api/app.py                         analyze_resume                 *)
(*                                                                         *)
(* Python strings are sequences of one-character strings, Python dicts are *)
(* records (a missing key is a name outside DOMAIN), Python floats are     *)
(* exact rationals <<numerator, denominator>> in lowest terms.             *)
(***************************************************************************)
EXTENDS Integers, Sequences, FiniteSets, TLC

VARIABLES
    op,                     \* the public operation being invoked
    pc,                     \* position inside the invocation
    resume_data,            \* parsed resume (dict)
    jd_data,                \* parsed job description (dict)
    library,                \* values scikit-learn and sentence-transformers compute
    hard_match_results,     \* HardMatchAnalyzer output
    semantic_match_results, \* SemanticMatchAnalyzer output
    final_result,           \* ScoreCalculator.calculate output
    error,                  \* exception that ended the invocation, or "none"
    request,                \* analyze_resume: the HTTP request
    stages,                 \* analyze_resume: stages invoked so far, in order
    response,               \* analyze_resume: the HTTP response
    results_dir,            \* analyze_resume: ids with a stored result file
    uploads_dir,            \* analyze_resume: ids with an uploaded file on disk
    calls,                  \* ResumeParser.parse: extractors and segmenter invoked, in order
    vectorizer,             \* hard_match_analyzer.vectorizer: the fitted vocabulary
    inflight                \* analyze_resume coroutines: id -> request, position, response

vars == <<op, pc, resume_data, jd_data, library, hard_match_results,
          semantic_match_results, final_result, error, request, stages,
          response, results_dir, uploads_dir, calls, vectorizer, inflight>>

-----------------------------------------------------------------------------
(* Bounds of the model *)

\* longest resume skill list
MaxResumeSkills == 2
\* longest job skill list
MaxJdSkills == 3
\* longest education / experience list
MaxEntries == 2

-----------------------------------------------------------------------------
(* Python values *)

\* a value that stands for "not computed" in a variable that holds a dict
NoValue == [none |-> TRUE]

IsValue(d) == "none" \notin DOMAIN d

\* dict.get(key, default)
Get(d, key, default) == IF key \in DOMAIN d THEN d[key] ELSE default

Range(s) == {s[i] : i \in 1..Len(s)}

Max(a, b) == IF a >= b THEN a ELSE b

Abs(n) == IF n < 0 THEN -n ELSE n

RECURSIVE GCD(_, _)
GCD(a, b) == IF b = 0 THEN a ELSE GCD(b, a % b)

DivideBoth(n, d, g) == <<n \div g, d \div g>>

\* the rational n/d (d # 0) in lowest terms with a positive denominator
Rat(n, d) ==
    IF d < 0 THEN DivideBoth(-n, -d, GCD(Abs(n), -d))
    ELSE DivideBoth(n, d, GCD(Abs(n), d))

Num(n) == <<n, 1>>

RAdd(x, y) == Rat(x[1] * y[2] + y[1] * x[2], x[2] * y[2])

RMul(x, y) == Rat(x[1] * y[1], x[2] * y[2])

RDiv(x, y) == Rat(x[1] * y[2], x[2] * y[1])

RLt(x, y) == x[1] * y[2] < y[1] * x[2]

RLe(x, y) == x[1] * y[2] <= y[1] * x[2]

\* floor of n/d for d > 0
Floor(n, d) == IF n >= 0 THEN n \div d ELSE -((-n + d - 1) \div d)

\* the nearer of f and f + 1 to n/d, the even one on a tie
NearestFrom(n, d, f) ==
    IF 2 * (n - f * d) < d THEN f
    ELSE IF 2 * (n - f * d) > d THEN f + 1
    ELSE IF f % 2 = 0 THEN f ELSE f + 1

\* round(x): nearest integer, ties to the even one
RoundHalfEven(x) == NearestFrom(x[1], x[2], Floor(x[1], x[2]))

\* round(x, 2)
Round2(x) == Rat(RoundHalfEven(RMul(x, Num(100))), 100)

UpperCase == <<"A", "B", "C", "D", "E", "F", "G", "H", "I", "J", "K", "L", "M",
               "N", "O", "P", "Q", "R", "S", "T", "U", "V", "W", "X", "Y", "Z">>

LowerCase == <<"a", "b", "c", "d", "e", "f", "g", "h", "i", "j", "k", "l", "m",
               "n", "o", "p", "q", "r", "s", "t", "u", "v", "w", "x", "y", "z">>

LowerChar(c) ==
    IF \E i \in 1..26 : UpperCase[i] = c
    THEN LowerCase[CHOOSE i \in 1..26 : UpperCase[i] = c]
    ELSE c

\* str.lower()
Lower(s) == [i \in 1..Len(s) |-> LowerChar(s[i])]

\* [x.lower() for x in xs]
LowerAll(xs) == [i \in 1..Len(xs) |-> Lower(xs[i])]

\* x in xs, for a list xs
InList(x, xs) == \E i \in 1..Len(xs) : xs[i] = x

\* sub in s, for strings
IsSubstring(sub, s) ==
    \E i \in 0..(Len(s) - Len(sub)) :
        \A k \in 1..Len(sub) : s[i + k] = sub[k]

-----------------------------------------------------------------------------
(* difflib.SequenceMatcher(None, a, b).ratio() *)

\* length of the common run that starts at a[i], b[j] and stays below ahi, bhi
RECURSIVE RunLen(_, _, _, _, _, _)
RunLen(a, b, i, j, ahi, bhi) ==
    IF i < ahi /\ j < bhi /\ a[i] = b[j]
    THEN 1 + RunLen(a, b, i + 1, j + 1, ahi, bhi)
    ELSE 0

\* size of the longest block common to a[alo..ahi-1] and b[blo..bhi-1]
LongestSize(a, b, alo, ahi, blo, bhi) ==
    CHOOSE k \in 0..(ahi - alo) :
        /\ \/ k = 0
           \/ \E p \in (alo..(ahi - 1)) \X (blo..(bhi - 1)) :
                  RunLen(a, b, p[1], p[2], ahi, bhi) = k
        /\ \A q \in (alo..(ahi - 1)) \X (blo..(bhi - 1)) :
               RunLen(a, b, q[1], q[2], ahi, bhi) <= k

\* the block of size k that starts earliest in a and, of those, earliest in b
FirstBlock(a, b, alo, ahi, blo, bhi, k) ==
    IF k = 0 THEN <<alo, blo, 0>>
    ELSE CHOOSE m \in (alo..(ahi - 1)) \X (blo..(bhi - 1)) \X {k} :
             /\ RunLen(a, b, m[1], m[2], ahi, bhi) = k
             /\ \A q \in (alo..(ahi - 1)) \X (blo..(bhi - 1)) :
                    RunLen(a, b, q[1], q[2], ahi, bhi) = k
                    => m[1] < q[1] \/ (m[1] = q[1] /\ m[2] <= q[2])

\* find_longest_match(alo, ahi, blo, bhi) as <<i, j, size>>
FindLongestMatch(a, b, alo, ahi, blo, bhi) ==
    FirstBlock(a, b, alo, ahi, blo, bhi, LongestSize(a, b, alo, ahi, blo, bhi))

\* get_matching_blocks: the size of the longest block m plus the sizes of the
\* blocks found left and right of it, recursively
RECURSIVE Matches(_, _, _, _, _, _)
RECURSIVE MatchesAround(_, _, _, _, _, _, _)
MatchesAround(a, b, alo, ahi, blo, bhi, m) ==
    IF m[3] = 0 THEN 0
    ELSE m[3] + Matches(a, b, alo, m[1], blo, m[2])
              + Matches(a, b, m[1] + m[3], ahi, m[2] + m[3], bhi)

Matches(a, b, alo, ahi, blo, bhi) ==
    MatchesAround(a, b, alo, ahi, blo, bhi,
                  FindLongestMatch(a, b, alo, ahi, blo, bhi))

\* ratio(): 2.0 * matches / (len(a) + len(b)), 1.0 for two empty strings
Ratio(a, b) ==
    IF Len(a) + Len(b) = 0 THEN Num(1)
    ELSE Rat(2 * Matches(a, b, 1, Len(a) + 1, 1, Len(b) + 1), Len(a) + Len(b))

-----------------------------------------------------------------------------
(* HardMatchAnalyzer *)

\* the 80% similarity threshold of the fuzzy skill match
FuzzyThreshold == Rat(8, 10)

\* a fuzzy match that counts as much as an exact one
FuzzyWeight_Full == Num(1)

\* the weight of a fuzzy match in the skill score
FuzzyWeight == Rat(8, 10)

\* best_match = None, best_ratio = 0
NoMatch == [found |-> FALSE, best_match |-> <<>>, best_ratio |-> Num(0)]

\* a candidate loop in which a later candidate of the same ratio replaces
\* the best
Better_LastWins(best, resume_skill, ratio) ==
    IF RLt(FuzzyThreshold, ratio) /\ RLe(best.best_ratio, ratio)
    THEN [found |-> TRUE, best_match |-> resume_skill, best_ratio |-> ratio]
    ELSE best

\* "if ratio > 0.8 and ratio > best_ratio": the candidate replaces the best
Better(best, resume_skill, ratio) ==
    IF RLt(FuzzyThreshold, ratio) /\ RLt(best.best_ratio, ratio)
    THEN [found |-> TRUE, best_match |-> resume_skill, best_ratio |-> ratio]
    ELSE best

\* the candidate loop of analyze_skill_match over resume_skills_lower[i..]
RECURSIVE BestMatch(_, _, _, _)
BestMatch(jd_skill, resume_skills_lower, i, best) ==
    IF i > Len(resume_skills_lower) THEN best
    ELSE BestMatch(jd_skill, resume_skills_lower, i + 1,
                   Better(best, resume_skills_lower[i],
                          Ratio(jd_skill, resume_skills_lower[i])))

\* "if best_match:" a match that is neither None nor the empty string
Truthy(best) == best.found /\ best.best_match # <<>>

HasBestMatch(jd_skill, resume_skills_lower) ==
    Truthy(BestMatch(jd_skill, resume_skills_lower, 1, NoMatch))

\* one entry of fuzzy_matched_skills: (jd, resume, round(score * 100))
FuzzyEntry(jd_skill, best) ==
    <<jd_skill, best.best_match, RoundHalfEven(RMul(best.best_ratio, Num(100)))>>

\* exact_matches: the job skills present verbatim in the resume list
ExactMatches(jd_skills_lower, resume_skills_lower) ==
    SelectSeq(jd_skills_lower, LAMBDA s : InList(s, resume_skills_lower))

\* the job skills the second loop looks at: "if jd_skill not in exact_matches"
Unmatched(jd_skills_lower, resume_skills_lower) ==
    SelectSeq(jd_skills_lower,
              LAMBDA s : ~InList(s, ExactMatches(jd_skills_lower, resume_skills_lower)))

FuzzyEntries(fuzzy_jd, resume_skills_lower) ==
    [i \in 1..Len(fuzzy_jd) |->
        FuzzyEntry(fuzzy_jd[i], BestMatch(fuzzy_jd[i], resume_skills_lower, 1, NoMatch))]

FuzzyMatches(jd_skills_lower, resume_skills_lower) ==
    FuzzyEntries(SelectSeq(Unmatched(jd_skills_lower, resume_skills_lower),
                           LAMBDA s : HasBestMatch(s, resume_skills_lower)),
                 resume_skills_lower)

\* a second loop that reports every skill it looks at as missing, the fuzzily
\* matched ones too
MissingSkills_WithFuzzy(jd_skills_lower, resume_skills_lower) ==
    Unmatched(jd_skills_lower, resume_skills_lower)

MissingSkills(jd_skills_lower, resume_skills_lower) ==
    SelectSeq(Unmatched(jd_skills_lower, resume_skills_lower),
              LAMBDA s : ~HasBestMatch(s, resume_skills_lower))

\* the scores and the returned dict, n = len(jd_skills)
SkillResult(exact_matches, fuzzy_matches, missing_skills, n) ==
    [matched_skills |-> exact_matches,
     fuzzy_matched_skills |-> fuzzy_matches,
     missing_skills |-> missing_skills,
     skill_match_score |-> RMul(Rat(Len(exact_matches), n), Num(100)),
     fuzzy_match_score |->
         RMul(RMul(Rat(Len(fuzzy_matches), n), Num(100)), FuzzyWeight),
     overall_skill_match_score |->
         RMul(RDiv(RAdd(Num(Len(exact_matches)),
                        RMul(Num(Len(fuzzy_matches)), FuzzyWeight)),
                   Num(n)),
              Num(100))]

SkillMatchLower(resume_skills_lower, jd_skills_lower, n) ==
    SkillResult(ExactMatches(jd_skills_lower, resume_skills_lower),
                FuzzyMatches(jd_skills_lower, resume_skills_lower),
                MissingSkills(jd_skills_lower, resume_skills_lower), n)

analyze_skill_match(resume_skills, jd_skills) ==
    IF Len(jd_skills) = 0
    THEN [matched_skills |-> <<>>,
          missing_skills |-> <<>>,
          skill_match_score |-> Num(0),
          overall_skill_match_score |-> Num(0)]
    ELSE SkillMatchLower(LowerAll(resume_skills), LowerAll(jd_skills), Len(jd_skills))

\* string.punctuation characters that the model's texts use
Punctuation == {"!", ",", ".", "+", "-", ":"}

\* words of sklearn's English stop-word list that the model's texts use
StopWords == {<<"t", "h", "e">>, <<"o", "f">>}

\* text.translate(str.maketrans('', '', string.punctuation))
StripPunctuation(text) == SelectSeq(text, LAMBDA c : c \notin Punctuation)

\* text.split(): the maximal runs of non-whitespace characters; word is the
\* run being read
RECURSIVE SplitWords(_, _)
SplitWords(text, word) ==
    IF text = <<>> THEN (IF word = <<>> THEN <<>> ELSE <<word>>)
    ELSE IF Head(text) \in {" ", "\t", "\n"}
         THEN (IF word = <<>> THEN <<>> ELSE <<word>>) \o SplitWords(Tail(text), <<>>)
         ELSE SplitWords(Tail(text), Append(word, Head(text)))

\* _clean_text: lower-case, remove punctuation, collapse whitespace; the
\* result ' '.join(words) is kept as its list of words
clean_text(text) == SplitWords(StripPunctuation(Lower(text)), <<>>)

\* the terms TfidfVectorizer(stop_words='english') keeps of a cleaned text:
\* tokens of two or more characters that are no stop word
KeptWords(cleaned) ==
    SelectSeq(cleaned, LAMBDA w : Len(w) >= 2 /\ w \notin StopWords)

Terms(cleaned) == Range(KeptWords(cleaned))

\* fit_transform raises ValueError on an empty vocabulary
VectorizerRaises(jd_clean, resume_clean) ==
    Terms(jd_clean) \cup Terms(resume_clean) = {}

\* cosine_similarity of the two TF-IDF rows: 0 without a common term,
\* 1 for equal rows, else the value the library computes
TfidfCosine(jd_clean, resume_clean, lib) ==
    IF Terms(jd_clean) \cap Terms(resume_clean) = {} THEN Num(0)
    ELSE IF KeptWords(jd_clean) = KeptWords(resume_clean) THEN Num(1)
    ELSE lib.tfidf

\* TfidfVectorizer(stop_words='english') before its first fit
Unfitted == {}

\* the vocabulary of self.vectorizer after analyze_keyword_match: the early
\* return and a fit_transform that raises leave it as it was, a fit_transform
\* that returns replaces it by the terms of the two texts
fit_transform(fitted, resume_text, jd_text) ==
    IF resume_text = <<>> \/ jd_text = <<>> THEN fitted
    ELSE IF VectorizerRaises(clean_text(jd_text), clean_text(resume_text)) THEN fitted
    ELSE Terms(clean_text(jd_text)) \cup Terms(clean_text(resume_text))

\* the try / except around the vectorizer: similarity = 0 when it raises
Similarity(jd_clean, resume_clean, lib) ==
    IF VectorizerRaises(jd_clean, resume_clean) THEN Num(0)
    ELSE TfidfCosine(jd_clean, resume_clean, lib)

\* a keyword match without the try / except: the ValueError of the
\* vectorizer leaves the call
analyze_keyword_match_Unguarded(resume_text, jd_text, lib) ==
    IF resume_text = <<>> \/ jd_text = <<>>
    THEN [keyword_match_score |-> Num(0)]
    ELSE IF VectorizerRaises(clean_text(jd_text), clean_text(resume_text))
    THEN [raises |-> "ValueError"]
    ELSE [keyword_match_score |->
             RMul(TfidfCosine(clean_text(jd_text), clean_text(resume_text), lib),
                  Num(100))]

analyze_keyword_match(resume_text, jd_text, lib) ==
    IF resume_text = <<>> \/ jd_text = <<>>
    THEN [keyword_match_score |-> Num(0)]
    ELSE [keyword_match_score |->
             RMul(Similarity(clean_text(jd_text), clean_text(resume_text), lib),
                  Num(100))]

\* edu.get('degree', '').lower() of every entry
DegreesLower(resume_education) ==
    [i \in 1..Len(resume_education) |->
        Lower(Get(resume_education[i], "degree", <<>>))]

\* resume_degrees: the non-empty degree strings of the resume
ResumeDegrees(resume_education) ==
    SelectSeq(DegreesLower(resume_education), LAMBDA d : d # <<>>)

\* a match in one direction only: the requirement inside the degree
DegreeMatches_OneWay(req, resume_degrees) ==
    \E i \in 1..Len(resume_degrees) : IsSubstring(Lower(req), resume_degrees[i])

\* "if req_lower in degree or degree in req_lower" for some resume degree
DegreeMatches(req, resume_degrees) ==
    \E i \in 1..Len(resume_degrees) :
        \/ IsSubstring(Lower(req), resume_degrees[i])
        \/ IsSubstring(resume_degrees[i], Lower(req))

EducationResult(matched_degrees, missing_degrees, n) ==
    [matched_degrees |-> matched_degrees,
     missing_degrees |-> missing_degrees,
     education_match_score |-> RMul(Rat(Len(matched_degrees), n), Num(100))]

EducationMatch(resume_degrees, jd_education_requirements) ==
    EducationResult(
        SelectSeq(jd_education_requirements,
                  LAMBDA r : DegreeMatches(r, resume_degrees)),
        SelectSeq(jd_education_requirements,
                  LAMBDA r : ~DegreeMatches(r, resume_degrees)),
        Len(jd_education_requirements))

\* an education match that scores an empty requirement list like an empty
\* skill list
analyze_education_match_EmptyIsZero(resume_education, jd_education_requirements) ==
    IF Len(jd_education_requirements) = 0
    THEN [education_match_score |-> Num(0)]
    ELSE EducationMatch(ResumeDegrees(resume_education), jd_education_requirements)

analyze_education_match(resume_education, jd_education_requirements) ==
    IF Len(jd_education_requirements) = 0
    THEN [education_match_score |-> Num(100)]
    ELSE EducationMatch(ResumeDegrees(resume_education), jd_education_requirements)

Digits == <<"0", "1", "2", "3", "4", "5", "6", "7", "8", "9">>

IsDigit(c) == \E d \in 1..10 : Digits[d] = c

DigitValue(c) == (CHOOSE d \in 1..10 : Digits[d] = c) - 1

\* characters that \s matches
Whitespace == {" ", "\t", "\n"}

\* the first position at or after i that holds no digit
RECURSIVE SkipDigits(_, _)
SkipDigits(s, i) ==
    IF i <= Len(s) /\ IsDigit(s[i]) THEN SkipDigits(s, i + 1) ELSE i

\* the first position at or after i that holds no whitespace
RECURSIVE SkipSpace(_, _)
SkipSpace(s, i) ==
    IF i <= Len(s) /\ s[i] \in Whitespace THEN SkipSpace(s, i + 1) ELSE i

\* the position after an optional "+" at j
SkipPlus(s, j) == IF j <= Len(s) /\ s[j] = "+" THEN j + 1 ELSE j

\* int() of the digits s[i..j-1]
RECURSIVE DigitsValue(_, _, _)
DigitsValue(s, i, j) ==
    IF j <= i THEN 0 ELSE 10 * DigitsValue(s, i, j - 1) + DigitValue(s[j - 1])

StartsAt(s, i, word) ==
    /\ i + Len(word) - 1 <= Len(s)
    /\ \A k \in 1..Len(word) : s[i + k - 1] = word[k]

YearWordAt(s, m) ==
    StartsAt(s, m, <<"y", "e", "a", "r">>) \/ StartsAt(s, m, <<"y", "r">>)

\* whether (\d+)[\+]?\s*(?:year|yr) matches s starting at position i; the
\* greedy \d+, [\+]? and \s* have one way to match: a shorter take leaves a
\* character that the next part of the pattern rejects
YearsMatchAt(s, i) ==
    /\ i <= Len(s)
    /\ IsDigit(s[i])
    /\ YearWordAt(s, SkipSpace(s, SkipPlus(s, SkipDigits(s, i))))

\* int(group(1)) of the match that starts at i
YearsAt(s, i) == DigitsValue(s, i, SkipDigits(s, i))

\* re.search on the lower-cased line s: the number of the leftmost match,
\* -1 when there is none
SearchLower(s) ==
    IF \E i \in 1..Len(s) : YearsMatchAt(s, i)
    THEN YearsAt(s, CHOOSE i \in 1..Len(s) :
                        /\ YearsMatchAt(s, i)
                        /\ \A j \in 1..(i - 1) : ~YearsMatchAt(s, j))
    ELSE -1

\* re.search(r'(\d+)[\+]?\s*(?:year|yr)', req.lower())
SearchYears(req) == SearchLower(Lower(req))

\* "if years: total_years += years"
AddYears(years, total) == IF years # 0 THEN total + years ELSE total

\* total_years: the sum of the truthy duration_years of the entries
RECURSIVE TotalYears(_)
TotalYears(resume_experience) ==
    IF resume_experience = <<>> THEN 0
    ELSE AddYears(Get(Head(resume_experience), "duration_years", 0),
                  TotalYears(Tail(resume_experience)))

\* a loop in which the number of the latest matching line governs
MaxYears_Latest(required_years, req_years) ==
    IF req_years >= 0 THEN req_years ELSE required_years

\* "if years_match: required_years = max(required_years, req_years)"
MaxYears(required_years, req_years) ==
    IF req_years >= 0 THEN Max(required_years, req_years) ELSE required_years

\* required_years: the largest number found over the requirement lines
RECURSIVE RequiredYears(_)
RequiredYears(jd_experience_requirements) ==
    IF jd_experience_requirements = <<>> THEN 0
    ELSE MaxYears(
             RequiredYears(SubSeq(jd_experience_requirements, 1,
                                  Len(jd_experience_requirements) - 1)),
             SearchYears(jd_experience_requirements[Len(jd_experience_requirements)]))

\* an all-or-nothing experience score
ExperienceScore_ZeroOne(total_years, required_years) ==
    IF required_years > 0 /\ total_years < required_years THEN Num(0) ELSE Num(100)

\* the score of analyze_experience_match for the two year counts
ExperienceScore(total_years, required_years) ==
    IF required_years > 0
    THEN IF total_years >= required_years
         THEN Num(100)
         ELSE RMul(Rat(total_years, required_years), Num(100))
    ELSE Num(100)

ExperienceResult(total_years, required_years) ==
    [resume_years |-> total_years,
     required_years |-> required_years,
     experience_match_score |-> ExperienceScore(total_years, required_years)]

analyze_experience_match(resume_experience, jd_experience_requirements) ==
    IF Len(jd_experience_requirements) = 0
    THEN [experience_match_score |-> Num(100)]
    ELSE ExperienceResult(TotalYears(resume_experience),
                          RequiredYears(jd_experience_requirements))

\* equal weights for the four components
HardWeights_Equal == [skill |-> Rat(1, 4), keyword |-> Rat(1, 4),
                      education |-> Rat(1, 4), experience |-> Rat(1, 4)]

\* the weights of calculate_overall_hard_match_score
HardWeights == [skill |-> Rat(4, 10), keyword |-> Rat(3, 10),
                education |-> Rat(15, 100), experience |-> Rat(15, 100)]

WeightedSum(skill_score, keyword_score, education_score, experience_score) ==
    RAdd(RAdd(RMul(skill_score, HardWeights.skill),
              RMul(keyword_score, HardWeights.keyword)),
         RAdd(RMul(education_score, HardWeights.education),
              RMul(experience_score, HardWeights.experience)))

calculate_overall_hard_match_score(skill_match, keyword_match, education_match, experience_match) ==
    WeightedSum(Get(skill_match, "overall_skill_match_score", Num(0)),
                Get(keyword_match, "keyword_match_score", Num(0)),
                Get(education_match, "education_match_score", Num(0)),
                Get(experience_match, "experience_match_score", Num(0)))

\* the dict HardMatchAnalyzer.analyze returns
HardResult(skill_match, keyword_match, education_match, experience_match) ==
    [skill_match |-> skill_match,
     keyword_match |-> keyword_match,
     education_match |-> education_match,
     experience_match |-> experience_match,
     overall_hard_match_score |->
         calculate_overall_hard_match_score(skill_match, keyword_match,
                                            education_match, experience_match)]

\* HardMatchAnalyzer.analyze
hard_analyze(resume, jd, lib) ==
    HardResult(
        analyze_skill_match(Get(resume, "skills", <<>>), Get(jd, "skills", <<>>)),
        analyze_keyword_match(Get(resume, "raw_text", <<>>),
                              Get(jd, "raw_text", <<>>), lib),
        analyze_education_match(Get(resume, "education", <<>>),
                                Get(jd, "education_requirements", <<>>)),
        analyze_experience_match(Get(resume, "experience", <<>>),
                                 Get(jd, "experience_requirements", <<>>)))

-----------------------------------------------------------------------------
(* SemanticMatchAnalyzer *)

EXPERIENCE == <<"E", "X", "P", "E", "R", "I", "E", "N", "C", "E">>

SKILLS == <<"S", "K", "I", "L", "L", "S">>

EDUCATION == <<"E", "D", "U", "C", "A", "T", "I", "O", "N">>

RESPONSIBILITIES ==
    <<"R", "E", "S", "P", "O", "N", "S", "I",
      "B", "I", "L", "I", "T", "I", "E", "S">>

WHAT_YOULL_DO ==
    <<"W", "H", "A", "T", " ", "Y", "O",
      "U", "'", "L", "L", " ", "D", "O">>

ABOUT_THE_ROLE ==
    <<"A", "B", "O", "U", "T", " ", "T",
      "H", "E", " ", "R", "O", "L", "E">>

REQUIREMENTS == <<"R", "E", "Q", "U", "I", "R", "E", "M", "E", "N", "T", "S">>

QUALIFICATIONS ==
    <<"Q", "U", "A", "L", "I", "F", "I",
      "C", "A", "T", "I", "O", "N", "S">>

WHAT_YOULL_NEED ==
    <<"W", "H", "A", "T", " ", "Y", "O", "U",
      "'", "L", "L", " ", "N", "E", "E", "D">>

\* section_mappings, in the dict's iteration order
section_mappings ==
    <<[resume |-> EXPERIENCE, jd |-> <<RESPONSIBILITIES, WHAT_YOULL_DO, ABOUT_THE_ROLE>>],
      [resume |-> SKILLS,
       jd |-> <<REQUIREMENTS, QUALIFICATIONS, SKILLS, WHAT_YOULL_NEED>>],
      [resume |-> EDUCATION, jd |-> <<EDUCATION, QUALIFICATIONS>>]>>

\* _cosine_similarity of the embeddings of two texts: 1 for equal texts, else
\* the value the embedding model gives the pair
Cosine(text1, text2, value) == IF text1 = text2 THEN Num(1) ELSE value

\* the content of the first section whose name contains the label
\* (case-insensitive); <<>> stands for None. sections is the ordered dict as a
\* sequence of <<name, content>>
FindSection(sections, label) ==
    IF \E i \in 1..Len(sections) : IsSubstring(Lower(label), Lower(sections[i][1]))
    THEN sections[CHOOSE i \in 1..Len(sections) :
                      /\ IsSubstring(Lower(label), Lower(sections[i][1]))
                      /\ \A j \in 1..(i - 1) :
                             ~IsSubstring(Lower(label), Lower(sections[j][1]))][2]
    ELSE <<>>

\* f"{resume_section}-{jd_section}"
SectionKey(resume_section, jd_section) == resume_section \o <<"-">> \o jd_section

\* "if jd_section_text:" the entry the pair adds to section_similarities
SectionPair(key, resume_section_text, jd_section_text, value) ==
    IF jd_section_text # <<>>
    THEN <<<<key, Cosine(resume_section_text, jd_section_text, value)>>>>
    ELSE <<>>

\* the inner loop over the candidate job sections j.. of mapping r
RECURSIVE SectionPairs(_, _, _, _, _)
SectionPairs(r, j, resume_section_text, jd, lib) ==
    IF j > Len(section_mappings[r].jd) THEN <<>>
    ELSE SectionPair(SectionKey(section_mappings[r].resume, section_mappings[r].jd[j]),
                     resume_section_text,
                     FindSection(Get(jd, "sections", <<>>), section_mappings[r].jd[j]),
                     lib.section[r][j])
         \o SectionPairs(r, j + 1, resume_section_text, jd, lib)

\* "if not resume_section_text: continue"
ResumeSectionPairs(r, resume_section_text, jd, lib) ==
    IF resume_section_text = <<>> THEN <<>>
    ELSE SectionPairs(r, 1, resume_section_text, jd, lib)

\* _calculate_section_similarities from mapping r on: the ordered dict as a
\* sequence of <<key, similarity>>
RECURSIVE calculate_section_similarities(_, _, _, _)
calculate_section_similarities(r, resume, jd, lib) ==
    IF r > Len(section_mappings) THEN <<>>
    ELSE ResumeSectionPairs(r, FindSection(Get(resume, "sections", <<>>),
                                           section_mappings[r].resume), jd, lib)
         \o calculate_section_similarities(r + 1, resume, jd, lib)

RECURSIVE SumValues(_)
SumValues(items) ==
    IF items = <<>> THEN Num(0) ELSE RAdd(Head(items)[2], SumValues(Tail(items)))

\* the two weights the other way round
SemanticWeights_Swapped == [overall |-> Rat(4, 10), section |-> Rat(6, 10)]

\* the weights of _calculate_semantic_match_score
SemanticWeights == [overall |-> Rat(6, 10), section |-> Rat(4, 10)]

calculate_semantic_match_score(overall_similarity, section_similarities) ==
    IF section_similarities # <<>>
    THEN RMul(RAdd(RMul(SemanticWeights.overall, overall_similarity),
                   RMul(SemanticWeights.section,
                        RDiv(SumValues(section_similarities),
                             Num(Len(section_similarities))))),
              Num(100))
    ELSE RMul(overall_similarity, Num(100))

\* SemanticMatchAnalyzer.analyze raises KeyError without a raw_text
semantic_analyze_raises(resume, jd) ==
    "raw_text" \notin DOMAIN resume \/ "raw_text" \notin DOMAIN jd

\* the dict SemanticMatchAnalyzer.analyze returns
SemanticResult(overall_similarity, section_similarities) ==
    [overall_similarity |-> overall_similarity,
     section_similarities |-> section_similarities,
     semantic_match_score |->
         calculate_semantic_match_score(overall_similarity, section_similarities)]

\* SemanticMatchAnalyzer.analyze
semantic_analyze(resume, jd, lib) ==
    SemanticResult(Cosine(resume.raw_text, jd.raw_text, lib.overall),
                   calculate_section_similarities(1, resume, jd, lib))

-----------------------------------------------------------------------------
(* ScoreCalculator *)

\* config.WEIGHTS
WEIGHTS == [hard_match |-> Rat(6, 10), semantic_match |-> Rat(4, 10)]

\* config.VERDICT_THRESHOLDS
VERDICT_THRESHOLDS == [high |-> 75, medium |-> 50, low |-> 0]

\* the similarity below which the weakest section gets a suggestion
LowSimilarity == Rat(7, 10)

\* a verdict whose thresholds are exclusive
generate_verdict_Exclusive(score) ==
    IF RLt(Num(VERDICT_THRESHOLDS.high), score) THEN "High"
    ELSE IF RLt(Num(VERDICT_THRESHOLDS.medium), score) THEN "Medium"
    ELSE "Low"

generate_verdict(score) ==
    IF RLe(Num(VERDICT_THRESHOLDS.high), score) THEN "High"
    ELSE IF RLe(Num(VERDICT_THRESHOLDS.medium), score) THEN "Medium"
    ELSE "Low"

HasKeys(d, keys) == keys \subseteq DOMAIN d

\* _identify_missing_elements raises KeyError when a key it subscripts is
\* absent; the education and experience keys are read only below a score of 100
identify_missing_elements_raises(hard) ==
    \/ ~HasKeys(hard, {"skill_match"})
    \/ ~HasKeys(hard.skill_match, {"missing_required", "missing_preferred"})
    \/ ~HasKeys(hard, {"keyword_match"})
    \/ ~HasKeys(hard.keyword_match, {"missing_keywords"})
    \/ ~HasKeys(hard, {"education_match"})
    \/ ~HasKeys(hard.education_match, {"education_match_score"})
    \/ /\ RLt(hard.education_match.education_match_score, Num(100))
       /\ ~HasKeys(hard.education_match, {"jd_education", "resume_education_level"})
    \/ ~HasKeys(hard, {"experience_match"})
    \/ ~HasKeys(hard.experience_match, {"experience_match_score"})
    \/ /\ RLt(hard.experience_match.experience_match_score, Num(100))
       /\ ~HasKeys(hard.experience_match,
                   {"jd_required_years", "resume_experience_years"})

\* an empty dict
EmptyDict == [x \in {} |-> x]

\* a report that also opens a block at a score of exactly 100
identify_missing_elements_AtMost(hard) ==
    [skills |-> [required |-> hard.skill_match.missing_required,
                 preferred |-> hard.skill_match.missing_preferred],
     keywords |-> hard.keyword_match.missing_keywords,
     education |->
         IF RLe(hard.education_match.education_match_score, Num(100))
         THEN [required |-> hard.education_match.jd_education,
               current |-> <<"Level", hard.education_match.resume_education_level>>]
         ELSE EmptyDict,
     experience |->
         IF RLe(hard.experience_match.experience_match_score, Num(100))
         THEN [required_years |-> hard.experience_match.jd_required_years,
               current_years |-> hard.experience_match.resume_experience_years]
         ELSE EmptyDict]

\* ScoreCalculator._identify_missing_elements
identify_missing_elements(hard) ==
    [skills |-> [required |-> hard.skill_match.missing_required,
                 preferred |-> hard.skill_match.missing_preferred],
     keywords |-> hard.keyword_match.missing_keywords,
     education |->
         IF RLt(hard.education_match.education_match_score, Num(100))
         THEN [required |-> hard.education_match.jd_education,
               current |-> <<"Level", hard.education_match.resume_education_level>>]
         ELSE EmptyDict,
     experience |->
         IF RLt(hard.experience_match.experience_match_score, Num(100))
         THEN [required_years |-> hard.experience_match.jd_required_years,
               current_years |-> hard.experience_match.resume_experience_years]
         ELSE EmptyDict]

\* a slice that is one item too long
FirstK_OneMore(items, k) ==
    SubSeq(items, 1, IF Len(items) < k + 1 THEN Len(items) ELSE k + 1)

\* items[:k]
FirstK(items, k) == SubSeq(items, 1, IF Len(items) < k THEN Len(items) ELSE k)

\* a list suggestion: the rule, the items it names and the N of "and N more"
\* (0: no suffix)
ListSuggestion(rule, items, k) ==
    IF items # <<>>
    THEN <<[rule |-> rule, names |-> FirstK(items, k),
            more |-> IF Len(items) > k THEN Len(items) - k ELSE 0]>>
    ELSE <<>>

EducationSuggestion(education) ==
    IF DOMAIN education # {}
    THEN <<[rule |-> "education", names |-> <<education.required>>, more |-> 0]>>
    ELSE <<>>

\* "if required_years and current_years": both non-zero; gap > 0
ExperienceSuggestion(experience) ==
    IF /\ DOMAIN experience # {}
       /\ experience.required_years # 0
       /\ experience.current_years # 0
       /\ experience.required_years - experience.current_years > 0
    THEN <<[rule |-> "experience",
            names |-> <<experience.required_years, experience.current_years>>,
            more |-> 0]>>
    ELSE <<>>

\* a minimum that keeps the last of several least entries
LowestSection_LastWins(section_similarities) ==
    section_similarities[
        CHOOSE i \in 1..Len(section_similarities) :
            /\ \A j \in 1..Len(section_similarities) :
                   RLe(section_similarities[i][2], section_similarities[j][2])
            /\ \A j \in (i + 1)..Len(section_similarities) :
                   RLt(section_similarities[i][2], section_similarities[j][2])]

\* min(section_similarities.items(), key=lambda x: x[1]): the first entry, in
\* iteration order, with the least value
LowestSection(section_similarities) ==
    section_similarities[
        CHOOSE i \in 1..Len(section_similarities) :
            /\ \A j \in 1..Len(section_similarities) :
                   RLe(section_similarities[i][2], section_similarities[j][2])
            /\ \A j \in 1..(i - 1) :
                   RLt(section_similarities[i][2], section_similarities[j][2])]

\* key.split('-')[0]
RECURSIVE BeforeDash(_)
BeforeDash(key) ==
    IF key = <<>> \/ Head(key) = "-" THEN <<>>
    ELSE <<Head(key)>> \o BeforeDash(Tail(key))

\* "if lowest_section[1] < 0.7"
LowSectionSuggestion(lowest_section) ==
    IF RLt(lowest_section[2], LowSimilarity)
    THEN <<[rule |-> "section", names |-> <<Lower(BeforeDash(lowest_section[1]))>>,
            more |-> 0]>>
    ELSE <<>>

SectionSuggestion(section_similarities) ==
    IF section_similarities # <<>>
    THEN LowSectionSuggestion(LowestSection(section_similarities))
    ELSE <<>>

generate_suggestions(hard, semantic, missing_elements) ==
    ListSuggestion("required", missing_elements.skills.required, 5)
    \o ListSuggestion("preferred", missing_elements.skills.preferred, 3)
    \o ListSuggestion("keywords", missing_elements.keywords, 5)
    \o EducationSuggestion(missing_elements.education)
    \o ExperienceSuggestion(missing_elements.experience)
    \o SectionSuggestion(Get(semantic, "section_similarities", <<>>))

\* the weighted score without the rounding
final_score_Unrounded(hard_match_score, semantic_match_score) ==
    RAdd(RMul(WEIGHTS.hard_match, hard_match_score),
         RMul(WEIGHTS.semantic_match, semantic_match_score))

\* round(w_hard * hard + w_sem * semantic, 2)
final_score(hard_match_score, semantic_match_score) ==
    Round2(RAdd(RMul(WEIGHTS.hard_match, hard_match_score),
                RMul(WEIGHTS.semantic_match, semantic_match_score)))

\* ScoreCalculator.calculate raises KeyError on a missing key
calculate_raises(hard, semantic) ==
    \/ "overall_hard_match_score" \notin DOMAIN hard
    \/ "semantic_match_score" \notin DOMAIN semantic
    \/ identify_missing_elements_raises(hard)

\* the dict ScoreCalculator.calculate returns
FinalResult(score, missing_elements, suggestions) ==
    [relevance_score |-> score,
     verdict |-> generate_verdict(score),
     missing_elements |-> missing_elements,
     suggestions |-> suggestions]

\* ScoreCalculator.calculate
calculate(hard, semantic) ==
    FinalResult(final_score(hard.overall_hard_match_score,
                            semantic.semantic_match_score),
                identify_missing_elements(hard),
                generate_suggestions(hard, semantic, identify_missing_elements(hard)))

-----------------------------------------------------------------------------
(* ResumeParser and JobDescriptionParser *)

UpperChar(c) ==
    IF \E i \in 1..26 : LowerCase[i] = c
    THEN UpperCase[CHOOSE i \in 1..26 : LowerCase[i] = c]
    ELSE c

\* str.upper()
Upper(s) == [i \in 1..Len(s) |-> UpperChar(s[i])]

RECURSIVE LStrip(_)
LStrip(s) == IF s # <<>> /\ Head(s) \in Whitespace THEN LStrip(Tail(s)) ELSE s

RECURSIVE RStrip(_)
RStrip(s) ==
    IF s # <<>> /\ s[Len(s)] \in Whitespace
    THEN RStrip(SubSeq(s, 1, Len(s) - 1))
    ELSE s

\* str.strip()
Strip(s) == RStrip(LStrip(s))

\* [item.strip() for item in items]
StripAll(items) == [i \in 1..Len(items) |-> Strip(items[i])]

\* the positions of text that hold a separator
SeparatorPositions(text, separators) == {i \in 1..Len(text) : text[i] \in separators}

\* the position of the k-th separator; 0 before the first, Len(text) + 1
\* after the last
Cut(text, separators, k) ==
    IF k = 0 THEN 0
    ELSE IF k > Cardinality(SeparatorPositions(text, separators)) THEN Len(text) + 1
    ELSE CHOOSE i \in SeparatorPositions(text, separators) :
             Cardinality({j \in SeparatorPositions(text, separators) : j <= i}) = k

\* text.split('\n') and re.split(r'[.\n]', text): the pieces between the
\* separator characters, empty ones included
SplitOn(text, separators) ==
    [k \in 1..(Cardinality(SeparatorPositions(text, separators)) + 1) |->
        SubSeq(text, Cut(text, separators, k - 1) + 1, Cut(text, separators, k) - 1)]

\* '\n'.join(content)
RECURSIVE JoinLines(_)
JoinLines(content) ==
    IF content = <<>> THEN <<>>
    ELSE IF Len(content) = 1 THEN content[1]
    ELSE content[1] \o <<"\n">> \o JoinLines(Tail(content))

\* what a call gives: the value it returns or the exception it raises
Returned(value) == [raises |-> "none", value |-> value]

Raised(exception) == [raises |-> exception]

\* ResumeParser._extract_sections: section_headers
ResumeSectionHeaders ==
    <<<<"E", "D", "U", "C", "A", "T", "I", "O", "N">>,
     <<"E", "X", "P", "E", "R", "I", "E", "N", "C", "E">>,
     <<"W", "O", "R", "K", " ", "E", "X", "P", "E", "R", "I", "E", "N", "C", "E">>,
     <<"E", "M", "P", "L", "O", "Y", "M", "E", "N", "T">>,
     <<"S", "K", "I", "L", "L", "S">>,
     <<"T", "E", "C", "H", "N", "I", "C", "A", "L", " ", "S", "K", "I", "L", "L", "S">>,
     <<"P", "R", "O", "J", "E", "C", "T", "S">>,
     <<"P", "R", "O", "J", "E", "C", "T", " ", "E", "X", "P", "E", "R", "I", "E",
       "N", "C", "E">>,
     <<"C", "E", "R", "T", "I", "F", "I", "C", "A", "T", "I", "O", "N", "S">>,
     <<"A", "C", "H", "I", "E", "V", "E", "M", "E", "N", "T", "S">>,
     <<"P", "U", "B", "L", "I", "C", "A", "T", "I", "O", "N", "S">>,
     <<"L", "A", "N", "G", "U", "A", "G", "E", "S">>,
     <<"I", "N", "T", "E", "R", "E", "S", "T", "S">>,
     <<"S", "U", "M", "M", "A", "R", "Y">>,
     <<"O", "B", "J", "E", "C", "T", "I", "V", "E">>,
     <<"P", "R", "O", "F", "I", "L", "E">>>>

\* JobDescriptionParser._extract_sections: section_headers
JdSectionHeaders ==
    <<<<"R", "E", "S", "P", "O", "N", "S", "I", "B", "I", "L", "I", "T", "I", "E", "S">>,
     <<"R", "E", "Q", "U", "I", "R", "E", "M", "E", "N", "T", "S">>,
     <<"Q", "U", "A", "L", "I", "F", "I", "C", "A", "T", "I", "O", "N", "S">>,
     <<"S", "K", "I", "L", "L", "S">>,
     <<"E", "X", "P", "E", "R", "I", "E", "N", "C", "E">>,
     <<"E", "D", "U", "C", "A", "T", "I", "O", "N">>,
     <<"A", "B", "O", "U", "T", " ", "T", "H", "E", " ", "R", "O", "L", "E">>,
     <<"A", "B", "O", "U", "T", " ", "T", "H", "E", " ", "C", "O", "M", "P", "A",
       "N", "Y">>,
     <<"B", "E", "N", "E", "F", "I", "T", "S">>,
     <<"W", "H", "A", "T", " ", "Y", "O", "U", "'", "L", "L", " ", "D", "O">>,
     <<"W", "H", "A", "T", " ", "Y", "O", "U", "'", "L", "L", " ", "N", "E", "E", "D">>,
     <<"W", "H", "O", " ", "Y", "O", "U", " ", "A", "R", "E">>>>

\* a resume line of this length or more is no header
ResumeHeaderLimit == 50

\* a job description line of this length or more is no header
JdHeaderLimit == 100

UNKNOWN == <<"U", "N", "K", "N", "O", "W", "N">>

DESCRIPTION == <<"D", "E", "S", "C", "R", "I", "P", "T", "I", "O", "N">>

\* the last of section_headers[i..] that the upper-cased line contains
FirstHeader_LastListed(line_upper, section_headers, i) ==
    IF \E h \in i..Len(section_headers) : IsSubstring(section_headers[h], line_upper)
    THEN section_headers[CHOOSE h \in i..Len(section_headers) :
             /\ IsSubstring(section_headers[h], line_upper)
             /\ \A g \in (h + 1)..Len(section_headers) :
                    ~IsSubstring(section_headers[g], line_upper)]
    ELSE <<>>

\* the first of section_headers[i..] that the upper-cased line contains;
\* <<>>: none
RECURSIVE FirstHeader(_, _, _)
FirstHeader(line_upper, section_headers, i) ==
    IF i > Len(section_headers) THEN <<>>
    ELSE IF IsSubstring(section_headers[i], line_upper) THEN section_headers[i]
    ELSE FirstHeader(line_upper, section_headers, i + 1)

\* a header test that lets a line of exactly the limit through
HeaderOf_AtLimit(line, section_headers, limit) ==
    IF Len(line) <= limit THEN FirstHeader(Upper(line), section_headers, 1) ELSE <<>>

\* the header that "header in line.upper() and len(line) < limit" finds first
HeaderOf(line, section_headers, limit) ==
    IF Len(line) < limit THEN FirstHeader(Upper(line), section_headers, 1) ELSE <<>>

\* key in d, for a dict d kept as the sequence of its <<key, value>> items
HasKey(d, key) == \E i \in 1..Len(d) : d[i][1] = key

\* d[key] = value: a new key goes last, a known key keeps its place
SetItem(d, key, value) ==
    IF HasKey(d, key)
    THEN [i \in 1..Len(d) |-> IF d[i][1] = key THEN <<key, value>> ELSE d[i]]
    ELSE Append(d, <<key, value>>)

\* d[key].append(line)
AppendTo(d, key, line) ==
    [i \in 1..Len(d) |->
        IF d[i][1] = key THEN <<key, Append(d[i][2], line)>> ELSE d[i]]

\* the loop of _extract_sections over lines[i..]: an empty line is skipped, a
\* header line starts its section with an empty content, any other line is
\* appended to the current section
RECURSIVE SectionLoop(_, _, _, _, _, _)
RECURSIVE SectionStep(_, _, _, _, _, _, _, _)
SectionStep(lines, i, section_headers, limit, sections, current_section, line, header) ==
    IF line = <<>>
    THEN SectionLoop(lines, i + 1, section_headers, limit, sections, current_section)
    ELSE IF header # <<>>
    THEN SectionLoop(lines, i + 1, section_headers, limit,
                     SetItem(sections, header, <<>>), header)
    ELSE SectionLoop(lines, i + 1, section_headers, limit,
                     AppendTo(sections, current_section, line), current_section)

SectionLoop(lines, i, section_headers, limit, sections, current_section) ==
    IF i > Len(lines) THEN sections
    ELSE SectionStep(lines, i, section_headers, limit, sections, current_section,
                     Strip(lines[i]),
                     HeaderOf(Strip(lines[i]), section_headers, limit))

\* "sections[section] = '\n'.join(content)" for every section
JoinSections(sections) ==
    [i \in 1..Len(sections) |-> <<sections[i][1], JoinLines(sections[i][2])>>]

\* _extract_sections of either parser
extract_sections(text, section_headers, limit, default) ==
    JoinSections(SectionLoop(SplitOn(text, {"\n"}), 1, section_headers, limit,
                             <<<<default, <<>>>>>>, default))

\* raise ValueError(f"Unsupported file format: {file_ext}")
UnsupportedFormat == "ValueError: Unsupported file format"

\* raise ValueError(f"Failed to extract text from ...: {e}")
ExtractionFailed == "ValueError: Failed to extract text"

PDF == <<".", "p", "d", "f">>

DOCX == <<".", "d", "o", "c", "x">>

\* ResumeParser._parse_pdf: PyMuPDF first, pdfplumber when PyMuPDF raises or
\* gives only whitespace
parse_pdf(document) ==
    IF document.fitz.raises = "none" /\ Strip(document.fitz.value) # <<>>
    THEN Returned(document.fitz.value)
    ELSE IF document.pdfplumber.raises # "none" THEN Raised(ExtractionFailed)
    ELSE Returned(document.pdfplumber.value)

\* the extractors _parse_pdf invokes, in order
pdf_calls_Both(document) == <<"fitz", "pdfplumber">>

pdf_calls(document) ==
    IF document.fitz.raises = "none" /\ Strip(document.fitz.value) # <<>>
    THEN <<"fitz">>
    ELSE <<"fitz", "pdfplumber">>

\* ResumeParser._parse_docx
parse_docx(document) ==
    IF document.docx2txt.raises # "none" THEN Raised(ExtractionFailed)
    ELSE Returned(document.docx2txt.value)

\* the branch of ResumeParser.parse on Path(file_path).suffix.lower()
ExtractText(document) ==
    IF Lower(document.suffix) = PDF THEN parse_pdf(document)
    ELSE IF Lower(document.suffix) = DOCX THEN parse_docx(document)
    ELSE Raised(UnsupportedFormat)

\* an extraction that tries the PDF extractors on every other suffix
ExtractCalls_PdfByDefault(document) ==
    IF Lower(document.suffix) = DOCX THEN <<"docx2txt">> ELSE pdf_calls(document)

\* the extractors the branch invokes, in order
ExtractCalls(document) ==
    IF Lower(document.suffix) = PDF THEN pdf_calls(document)
    ELSE IF Lower(document.suffix) = DOCX THEN <<"docx2txt">>
    ELSE <<>>

ResumeParsed(extracted) ==
    IF extracted.raises # "none" THEN extracted
    ELSE Returned([raw_text |-> extracted.value,
                   sections |-> extract_sections(extracted.value, ResumeSectionHeaders,
                                                 ResumeHeaderLimit, UNKNOWN)])

\* ResumeParser.parse
resume_parse(document) == ResumeParsed(ExtractText(document))

\* the calls of ResumeParser.parse, in order: the extractors, then
\* _extract_sections when the extraction returned
ParseCalls(document) ==
    ExtractCalls(document)
        \o (IF ExtractText(document).raises = "none"
            THEN <<"extract_sections">> ELSE <<>>)

\* JobDescriptionParser._extract_skills: the words that open a block of
\* required skills and the words that close it
required_patterns ==
    <<<<<<"r", "e", "q", "u", "i", "r", "e", "d", " ", "s", "k", "i", "l", "l", "s">>,
       <<"p", "r", "e", "f", "e", "r", "r", "e", "d", " ", "s", "k", "i", "l", "l", "s">>>>,
     <<<<"r", "e", "q", "u", "i", "r", "e", "m", "e", "n", "t", "s">>,
       <<"p", "r", "e", "f", "e", "r", "r", "e", "d">>>>,
     <<<<"q", "u", "a", "l", "i", "f", "i", "c", "a", "t", "i", "o", "n", "s">>,
       <<"p", "r", "e", "f", "e", "r", "r", "e", "d">>>>,
     <<<<"m", "u", "s", "t", " ", "h", "a", "v", "e">>,
       <<"n", "i", "c", "e", " ", "t", "o", " ", "h", "a", "v", "e">>>>,
     <<<<"e", "s", "s", "e", "n", "t", "i", "a", "l">>,
       <<"d", "e", "s", "i", "r", "a", "b", "l", "e">>>>>>

\* the words that open a block of preferred skills; the block runs to the end
preferred_patterns ==
    <<<<<<"p", "r", "e", "f", "e", "r", "r", "e", "d", " ", "s", "k", "i", "l", "l", "s">>,
       <<>>>>,
     <<<<"n", "i", "c", "e", " ", "t", "o", " ", "h", "a", "v", "e">>,
       <<>>>>,
     <<<<"d", "e", "s", "i", "r", "a", "b", "l", "e">>,
       <<>>>>,
     <<<<"b", "o", "n", "u", "s">>,
       <<>>>>>>

\* the position of the first occurrence of word in s at or after i; 0: none
Find(s, word, i) ==
    IF \E k \in i..Len(s) : StartsAt(s, k, word)
    THEN CHOOSE k \in i..Len(s) :
             /\ StartsAt(s, k, word)
             /\ \A j \in i..(k - 1) : ~StartsAt(s, j, word)
    ELSE 0

\* the first position at or after i whose character is not in chars
SkipChars(s, i, chars) ==
    CHOOSE k \in i..(Len(s) + 1) :
        /\ k = Len(s) + 1 \/ s[k] \notin chars
        /\ \A j \in i..(k - 1) : s[j] \in chars

\* where the lazy (.*?) that starts at a ends: at the first stop word, at \Z
\* without one
GroupEnd(low, stop, a) ==
    IF stop # <<>> /\ Find(low, stop, a) # 0 THEN Find(low, stop, a)
    ELSE Len(low) + 1

\* matches.group(1).strip() of the pattern start[:\s]*(.*?)(?=stop|\Z), matched
\* without regard to case, where the match starts at p and the group at a
GroupFrom(text, stop, a) == Strip(SubSeq(text, a, GroupEnd(Lower(text), stop, a) - 1))

SkillText(text, start, stop, p) ==
    GroupFrom(text, stop, SkipChars(text, p + Len(start), {":"} \cup Whitespace))

\* the bullet characters of the model's texts, of the pattern's three
Bullets == {"-", "*"}

\* the position of the first bullet at or after i; 0: none
NextBullet(s, i) ==
    IF \E k \in i..Len(s) : s[k] \in Bullets
    THEN CHOOSE k \in i..Len(s) :
             s[k] \in Bullets /\ \A j \in i..(k - 1) : s[j] \notin Bullets
    ELSE 0

\* a line break that a bullet follows
BreakBeforeBullet(s, k) == s[k] = "\n" /\ k < Len(s) /\ s[k + 1] \in Bullets

\* where an item that starts at a ends: before the first line break that a
\* bullet follows, at \Z without one
ItemEnd(s, a) ==
    IF \E k \in a..Len(s) : BreakBeforeBullet(s, k)
    THEN CHOOSE k \in a..Len(s) :
             BreakBeforeBullet(s, k) /\ \A j \in a..(k - 1) : ~BreakBeforeBullet(s, j)
    ELSE Len(s) + 1

\* re.findall(r"[bullet]\s*(.*?)(?=\n[bullet]|\Z)", s, re.DOTALL) from
\* position i on
RECURSIVE BulletItems(_, _)
RECURSIVE BulletItemFrom(_, _, _)
RECURSIVE BulletItemsAt(_, _)
BulletItemFrom(s, a, e) == <<SubSeq(s, a, e - 1)>> \o BulletItems(s, e)

BulletItemsAt(s, b) ==
    IF b = 0 THEN <<>>
    ELSE BulletItemFrom(s, SkipChars(s, b + 1, Whitespace),
                        ItemEnd(s, SkipChars(s, b + 1, Whitespace)))

BulletItems(s, i) == BulletItemsAt(s, NextBullet(s, i))

\* the sentences or lines of a block without bullets, the empty ones dropped
SentenceItems(skill_text) ==
    SelectSeq(StripAll(SplitOn(skill_text, {".", "\n"})), LAMBDA item : item # <<>>)

SkillItems(skill_text, bullet_items) ==
    IF bullet_items # <<>> THEN StripAll(bullet_items) ELSE SentenceItems(skill_text)

SkillItemsOf(skill_text) == SkillItems(skill_text, BulletItems(skill_text, 1))

\* the items one pattern adds; p is where re.search finds it, 0: nowhere
PatternItems(text, start, stop, p) ==
    IF p = 0 THEN <<>> ELSE SkillItemsOf(SkillText(text, start, stop, p))

\* the items of patterns[i..], in the order of the patterns
RECURSIVE AllItems(_, _, _)
AllItems(text, patterns, i) ==
    IF i > Len(patterns) THEN <<>>
    ELSE PatternItems(text, patterns[i][1], patterns[i][2],
                      Find(Lower(text), patterns[i][1], 1))
         \o AllItems(text, patterns, i + 1)

\* the orders list(set(items)) can give
Orders(items) ==
    {order \in [1..Cardinality(Range(items)) -> Range(items)] :
        \A i, j \in DOMAIN order : i # j => order[i] # order[j]}

REQUIRED == <<"r", "e", "q", "u", "i", "r", "e", "d">>

PREFERRED == <<"p", "r", "e", "f", "e", "r", "r", "e", "d">>

\* JobDescriptionParser._extract_skills, the two lists in the order the sets
\* gave them
extract_skills(required, preferred) ==
    <<<<REQUIRED, required>>, <<PREFERRED, preferred>>>>

\* JobDescriptionParser.parse; role_info and chunks, which no later stage
\* reads, are left out
jd_parse(text, required, preferred) ==
    [raw_text |-> text,
     sections |-> extract_sections(text, JdSectionHeaders, JdHeaderLimit, DESCRIPTION),
     skills |-> extract_skills(required, preferred)]

\* what "for skill in jd_skills" yields for a dict: its keys
DictKeys(d) == [i \in 1..Len(d) |-> d[i][1]]

-----------------------------------------------------------------------------
(* analyze_resume, the handler of POST /analyze *)

\* the arguments of the call jd_parser.parse(jd_text, jd_title)
JdParseArguments(req) == <<req.jd_text, req.jd_title>>

\* the parameters of JobDescriptionParser.parse after self
JdParseParameters == <<"text">>

\* a call with more positional arguments than parameters raises TypeError
JdParseCallRaises(req) == Len(JdParseArguments(req)) > Len(JdParseParameters)

AllStages == <<"resume_parse", "jd_parse", "hard_match", "semantic_match", "calculate">>

\* a failure path that has written the result file before it responds
Failed_ResultSaved(invoked, exception, resume, jd, hard, semantic) ==
    [stages |-> invoked,
     error |-> exception,
     resume_data |-> resume,
     jd_data |-> jd,
     hard_match_results |-> hard,
     semantic_match_results |-> semantic,
     final_result |-> NoValue,
     saved |-> TRUE,
     response |-> [status_code |-> 500, detail |-> exception]]

\* "except Exception as e: raise HTTPException(status_code=500, ...)" after
\* the stages invoked so far
Failed(invoked, exception, resume, jd, hard, semantic) ==
    [stages |-> invoked,
     error |-> exception,
     resume_data |-> resume,
     jd_data |-> jd,
     hard_match_results |-> hard,
     semantic_match_results |-> semantic,
     final_result |-> NoValue,
     saved |-> FALSE,
     response |-> [status_code |-> 500, detail |-> exception]]

\* the result record, saved and returned
Succeeded(id, resume, jd, hard, semantic, final) ==
    [stages |-> AllStages,
     error |-> "none",
     resume_data |-> resume,
     jd_data |-> jd,
     hard_match_results |-> hard,
     semantic_match_results |-> semantic,
     final_result |-> final,
     saved |-> TRUE,
     response |-> [status_code |-> 200,
                   result |-> [id |-> id,
                               relevance_score |-> final.relevance_score,
                               verdict |-> final.verdict,
                               missing_elements |-> final.missing_elements,
                               suggestions |-> final.suggestions,
                               hard_match_details |-> hard,
                               semantic_match_details |-> semantic]]]

AfterSemanticMatch(id, resume, jd, hard, semantic) ==
    IF calculate_raises(hard, semantic)
    THEN Failed(AllStages, "KeyError", resume, jd, hard, semantic)
    ELSE Succeeded(id, resume, jd, hard, semantic, calculate(hard, semantic))

AfterHardMatch(id, resume, jd, hard, lib) ==
    AfterSemanticMatch(id, resume, jd, hard, semantic_analyze(resume, jd, lib))

AfterJdParse(id, resume, jd, lib) ==
    AfterHardMatch(id, resume, jd,
                   hard_analyze(resume, [jd EXCEPT !.skills = DictKeys(jd.skills)], lib),
                   lib)

AfterResumeParse(id, req, parsed, required, preferred, lib) ==
    IF parsed.raises # "none"
    THEN Failed(<<"resume_parse">>, parsed.raises, NoValue, NoValue, NoValue, NoValue)
    ELSE IF JdParseCallRaises(req)
    THEN Failed(<<"resume_parse", "jd_parse">>, "TypeError",
                parsed.value, NoValue, NoValue, NoValue)
    ELSE AfterJdParse(id, parsed.value, jd_parse(req.jd_text, required, preferred), lib)

\* the body of analyze_resume for the analysis id that uuid4 gave
analyze_resume(id, req, required, preferred, lib) ==
    AfterResumeParse(id, req, resume_parse(req.resume_file), required, preferred, lib)

\* what the file system does to the request: nothing, or OSError from the
\* write of the resume file, the write of the job description file, the
\* open of the result file, or from json.dump into the opened result file
DiskOutcomes == {"ok", "resume_write", "jd_write", "result_open", "result_dump"}

\* "with open(result_path, 'w') as f: json.dump(result, f)": open creates
\* the file, so a dump that raises leaves it behind
SaveResult(served, disk) ==
    IF served.error # "none" \/ disk = "ok" THEN served
    ELSE [served EXCEPT !.error = "OSError",
                        !.saved = (disk = "result_dump"),
                        !.response = [status_code |-> 500, detail |-> "OSError"]]

\* analyze_resume with the file system: the two uploads are written before
\* the first stage, the result file after the last
analyze_resume_on_disk(id, req, required, preferred, lib, disk) ==
    IF disk \in {"resume_write", "jd_write"}
    THEN Failed(<<>>, "OSError", NoValue, NoValue, NoValue, NoValue)
    ELSE SaveResult(analyze_resume(id, req, required, preferred, lib), disk)

-----------------------------------------------------------------------------
(* Inputs *)

SeqsUpTo(S, n) == UNION {[1..k -> S] : k \in 0..n}

\* optional key of a dict: absent, or present with one of the values
Opt(key, values) == {EmptyDict} \cup {(key :> v) : v \in values}

\* skills equal up to case (aws, AWS), similar above the fuzzy threshold
\* (aws, awss: ratio 6/7), similar at the threshold (aws, aw: ratio 4/5) and
\* dissimilar (awss, aw: ratio 2/3); SkillCalls adds two resume skills at
\* the same ratio to a job skill (awss, aaws) and a lesser candidate before
\* the best one (awx, awss)
SkillNames == {<<"a", "w", "s">>, <<"A", "W", "S">>, <<"a", "w", "s", "s">>,
               <<"a", "w">>}

Python == <<"P", "y", "t", "h", "o", "n">>

Django == <<"D", "j", "a", "n", "g", "o">>

\* the skill lists of the calls of analyze_skill_match
SkillCalls ==
    (SeqsUpTo(SkillNames, MaxResumeSkills) \X SeqsUpTo(SkillNames, MaxJdSkills))
        \cup {<<<<Python, Django>>, <<Lower(Python), <<"a", "w", "s">>>>>>}
        \cup {<<<<<<"a", "w", "s", "s">>, <<"a", "a", "w", "s">>>>, <<<<"a", "w", "s">>>>>>,
              <<<<<<"a", "a", "w", "s">>, <<"a", "w", "s", "s">>>>, <<<<"A", "W", "S">>>>>>,
              <<<<<<"a", "w", "x">>, <<"a", "w", "s", "s">>>>, <<<<"a", "w", "s">>>>>>}

\* raw texts: strings with punctuation, upper case, stop words, line breaks
Texts == {<<>>,
          <<"p", "y", " ", "a", "w", "s", ",">>,
          <<"A", "W", "S">>,
          <<"T", "h", "e", " ", "!">>,
          <<"a", "w", "s", "\n", "o", "f">>,
          <<"P", "y", ".", " ", " ", "a", "w", "s">>}

TfidfValues == {Rat(1, 2), Rat(9, 10)}

CosineValues == {Rat(-1, 2), Rat(1, 2)}

Degrees == {<<"b", "s", "c">>, <<"B", "S", "c", " ", "C", "S">>, <<>>}

EducationEntries == {[degree |-> d] : d \in Degrees} \cup {[school |-> <<"m", "i", "t">>]}

\* requirements: equal to a resume degree, unrelated to any, contained in
\* one (BS), containing one (BSc hons)
EducationRequirements ==
    {<<"b", "s", "c">>, <<"M", "S", "c">>, <<"B", "S">>,
     <<"B", "S", "c", " ", "h", "o", "n", "s">>}

DurationYears == {-2, 0, 3, 5}

ExperienceEntries ==
    {[duration_years |-> y] : y \in DurationYears} \cup {[title |-> <<"d", "e", "v">>]}

\* requirement lines: with a number, without one, with the number 0, and
\* with two numbers (the leftmost, 2, is the one re.search yields)
ExperienceRequirements ==
    {<<"5", "+", " ", "Y", "e", "a", "r", "s">>, <<"3", " ", "y", "r", "s">>,
     <<"1", "0", "y", "e", "a", "r">>, <<"s", "e", "n", "i", "o", "r">>,
     <<"0", " ", "y", "r">>, <<"2", "y", "r", " ", "7", "y", "r">>}

\* the similarity the embedding model gives each pair of section_mappings
SectionValues == {<<<<v, v, v>>, <<v, w, v, v>>, <<w, v>>>> :
                     v \in {Rat(1, 2)}, w \in {Rat(8, 10)}}

Libraries == [tfidf : TfidfValues, overall : CosineValues, section : SectionValues]

DefaultLibrary == CHOOSE lib \in Libraries : TRUE

TextA == <<"p", "y", " ", "a", "w", "s", ",">>

TextB == <<"A", "W", "S">>

\* the sections of a resume: one with an experience and a skills section,
\* one whose skills section is a header without content
ResumeSections ==
    {<<<<<<"U", "N", "K", "N", "O", "W", "N">>, TextB>>,
       <<<<"W", "O", "R", "K", " ">> \o EXPERIENCE, TextA>>,
       <<SKILLS, TextB>>>>,
     <<<<<<"U", "N", "K", "N", "O", "W", "N">>, TextB>>,
       <<SKILLS, <<>>>>,
       <<EDUCATION, TextA>>>>}

\* the sections of a job description; its education section is a header
\* without content
JdSections ==
    {<<<<RESPONSIBILITIES, TextA>>, <<SKILLS, TextB>>, <<QUALIFICATIONS, TextA>>,
       <<EDUCATION, <<>>>>>>}

\* parsed resumes and job descriptions handed to the two analyzers
ResumeInputs ==
    {a @@ b @@ c @@ d @@ e :
        a \in Opt("skills", {<<<<"a", "w", "s">>>>, <<<<"a", "w", "s", "s">>, <<"P", "y">>>>}),
        b \in Opt("raw_text", {<<>>, TextA}),
        c \in Opt("education", {<<[degree |-> <<"B", "S", "c">>]>>}),
        d \in Opt("experience", {<<[duration_years |-> 3]>>, <<[duration_years |-> -2]>>}),
        e \in Opt("sections", ResumeSections)}

JdInputs ==
    {a @@ b @@ c @@ d @@ e :
        a \in {[skills |-> v] : v \in {<<>>, <<<<"a", "w", "s">>, <<"p", "y">>>>}},
        b \in {[raw_text |-> v] : v \in {TextA, TextB}},
        c \in Opt("education_requirements", {<<<<"b", "s", "c">>, <<"m", "s", "c">>>>}),
        d \in Opt("experience_requirements", {<<<<"5", "+", " ", "y", "e", "a", "r", "s">>>>}),
        e \in Opt("sections", JdSections)}

\* scores handed to the calculator: the verdict thresholds, their neighbours
\* two decimals below, values with more than two decimals (74.994 with 75
\* rounds up to 75)
CalcScores == {Num(0), Rat(100, 3), Rat(4999, 100), Num(50), Rat(74994, 1000),
               Rat(7499, 100), Num(75), Num(100)}

SixSkills == [i \in 1..6 |-> <<"s", Digits[i]>>]

\* skill_match and keyword_match as the calculator reads them
CalcSkillMatches ==
    {[missing_required |-> r, missing_preferred |-> q] :
        r \in {<<>>, SixSkills}, q \in {<<>>, <<<<"g", "q", "l">>>>}}
    \cup {[missing_required |-> SubSeq(SixSkills, 1, 5),
           missing_preferred |-> SubSeq(SixSkills, 4, 6)],
          [missing_required |-> SubSeq(SixSkills, 2, 3),
           missing_preferred |-> SubSeq(SixSkills, 3, 6)]}

CalcKeywordMatches ==
    {[missing_keywords |-> k] :
        k \in {<<>>, <<<<"c", "l", "o", "u", "d">>>>, SixSkills}}

CalcEducationMatches ==
    {[jd_education |-> <<"B", "S", "c">>, resume_education_level |-> 3,
      education_match_score |-> v] : v \in {Num(50), Num(100)}}

CalcExperienceMatches ==
    {[jd_required_years |-> 5, resume_experience_years |-> 5,
      experience_match_score |-> Num(100)],
     [jd_required_years |-> 5, resume_experience_years |-> 3,
      experience_match_score |-> Num(60)],
     [jd_required_years |-> 5, resume_experience_years |-> 0,
      experience_match_score |-> Num(0)],
     [experience_match_score |-> Num(60)]}

\* hard-match results with the keys of the calculator's example
CalcHardResults ==
    [overall_hard_match_score : CalcScores,
     skill_match : CalcSkillMatches,
     keyword_match : CalcKeywordMatches,
     education_match : CalcEducationMatches,
     experience_match : CalcExperienceMatches]

\* semantic results: no section pair, a weakest pair below 0.7, a weakest
\* pair at exactly 0.7, and two pairs of different resume sections tied at
\* the least value after a higher one
CalcSemanticResults ==
    [semantic_match_score : CalcScores \cup {Num(-50)},
     section_similarities :
         {<<>>, <<<<EXPERIENCE \o <<"-">> \o RESPONSIBILITIES, Rat(75, 100)>>,
                  <<SKILLS \o <<"-">> \o REQUIREMENTS, Rat(1, 2)>>>>,
          <<<<EXPERIENCE \o <<"-">> \o RESPONSIBILITIES, Rat(8, 10)>>,
            <<SKILLS \o <<"-">> \o REQUIREMENTS, Rat(7, 10)>>>>,
          <<<<EXPERIENCE \o <<"-">> \o RESPONSIBILITIES, Rat(6, 10)>>,
            <<SKILLS \o <<"-">> \o REQUIREMENTS, Rat(1, 2)>>,
            <<EDUCATION \o <<"-">> \o QUALIFICATIONS, Rat(1, 2)>>>>}]

\* most requests served
MaxRequests == 2

\* the ids uuid4 draws from
AnalysisIds == 1..MaxRequests

ResumeText == <<"J", "o", "\n", "S", "K", "I", "L", "L", "S", "\n", "a", "w", "s">>

\* what a text extractor does with the uploaded file
Extractions == {Raised("Exception"), Returned(<<" ", "\n">>), Returned(ResumeText)}

\* uploaded files: the suffix of the file name and what each extractor the
\* suffix selects does with the content
Documents ==
    {[suffix |-> x, fitz |-> f, pdfplumber |-> p] :
        x \in {PDF, Upper(PDF)}, f \in Extractions,
        p \in {Raised("Exception"), Returned(ResumeText)}}
    \cup {[suffix |-> DOCX, docx2txt |-> d] : d \in Extractions}
    \cup {[suffix |-> <<".", "t", "x", "t">>], [suffix |-> <<>>]}

\* file-name suffixes: the two formats in either case, other formats, none
Suffixes ==
    {PDF, Upper(PDF), DOCX, <<".", "D", "o", "c", "x">>, <<".", "t", "x", "t">>,
     <<".", "d", "o", "c">>, <<".", "p", "d", "f", "x">>, <<>>}

\* files handed to ResumeParser.parse: the suffix and what each extractor
\* would do with the content
ParseDocuments ==
    [suffix : Suffixes, fitz : Extractions, pdfplumber : Extractions,
     docx2txt : Extractions]

JdTexts ==
    {<<"R", "e", "q", "u", "i", "r", "e", "m", "e", "n", "t", "s", ":", "\n", "-",
        " ", "a", "w", "s", "\n", "-", " ", "p", "y">>,
     <<"M", "u", "s", "t", " ", "h", "a", "v", "e", " ", "s", "q", "l", ".", " ",
        "N", "i", "c", "e", " ", "t", "o", " ", "h", "a", "v", "e", ":", " ",
        "g", "o">>,
     <<>>}

JdTitles == {<<"None">>, <<"D", "e", "v">>}

Requests == [resume_file : Documents, jd_text : JdTexts, jd_title : JdTitles]

\* a DOCX resume with text and a job description with a skill list
PlainRequest ==
    [resume_file |-> [suffix |-> DOCX, docx2txt |-> Returned(ResumeText)],
     jd_text |-> CHOOSE t \in JdTexts : Len(t) = 24,
     jd_title |-> <<"None">>]

\* the requests served, each with what the file system does to it: every
\* request on a working disk, one request with every failure of the disk
RequestCalls ==
    (Requests \X {"ok"})
        \cup ({PlainRequest} \X {"resume_write", "jd_write", "result_open", "result_dump"})

-----------------------------------------------------------------------------
(* The analyzers and the calculator, invoked on parsed data *)

\* no coroutine of analyze_resume has been started
NoCoroutine == [id \in {} |-> NoValue]

\* no request is being served
NoRequest ==
    /\ request = NoValue
    /\ stages = <<>>
    /\ response = NoValue
    /\ results_dir = {}
    /\ uploads_dir = {}
    /\ calls = <<>>
    /\ vectorizer = Unfitted
    /\ inflight = NoCoroutine

Idle ==
    /\ hard_match_results = NoValue
    /\ semantic_match_results = NoValue
    /\ final_result = NoValue
    /\ error = "none"
    /\ NoRequest

InitSkill ==
    /\ op = "analyze_skill_match"
    /\ \E call \in SkillCalls :
          resume_data = [skills |-> call[1]] /\ jd_data = [skills |-> call[2]]
    /\ library = DefaultLibrary

InitKeyword ==
    /\ op = "analyze_keyword_match"
    /\ \E rt \in Texts, jt \in Texts :
          resume_data = [raw_text |-> rt] /\ jd_data = [raw_text |-> jt]
    /\ library \in {lib \in Libraries : lib.overall = DefaultLibrary.overall}

InitEducation ==
    /\ op = "analyze_education_match"
    /\ \E re \in SeqsUpTo(EducationEntries, MaxEntries),
          jr \in SeqsUpTo(EducationRequirements, MaxEntries) :
          resume_data = [education |-> re] /\ jd_data = [education_requirements |-> jr]
    /\ library = DefaultLibrary

InitExperience ==
    /\ op = "analyze_experience_match"
    /\ \E re \in SeqsUpTo(ExperienceEntries, MaxEntries),
          jr \in SeqsUpTo(ExperienceRequirements, MaxEntries) :
          resume_data = [experience |-> re] /\ jd_data = [experience_requirements |-> jr]
    /\ library = DefaultLibrary

InitAnalyze ==
    /\ op = "analyze"
    /\ resume_data \in ResumeInputs
    /\ jd_data \in JdInputs
    /\ library \in Libraries

Init ==
    /\ pc = "call"
    /\ Idle
    /\ \/ InitSkill
       \/ InitKeyword
       \/ InitEducation
       \/ InitExperience
       \/ InitAnalyze

Unused ==
    UNCHANGED <<request, stages, response, results_dir, uploads_dir, calls, inflight>>

Inputs == UNCHANGED <<op, resume_data, jd_data, library>>

CallAnalyzeSkillMatch ==
    /\ pc = "call" /\ op = "analyze_skill_match"
    /\ hard_match_results' =
           [skill_match |-> analyze_skill_match(resume_data.skills, jd_data.skills)]
    /\ pc' = "done"
    /\ UNCHANGED <<semantic_match_results, final_result, error, vectorizer>>
    /\ Inputs /\ Unused

CallAnalyzeKeywordMatch ==
    /\ pc = "call" /\ op = "analyze_keyword_match"
    /\ hard_match_results' =
           [keyword_match |->
               analyze_keyword_match(resume_data.raw_text, jd_data.raw_text, library)]
    /\ vectorizer' = fit_transform(vectorizer, resume_data.raw_text, jd_data.raw_text)
    /\ pc' = "done"
    /\ UNCHANGED <<semantic_match_results, final_result, error>>
    /\ Inputs /\ Unused

CallAnalyzeEducationMatch ==
    /\ pc = "call" /\ op = "analyze_education_match"
    /\ hard_match_results' =
           [education_match |->
               analyze_education_match(resume_data.education,
                                       jd_data.education_requirements)]
    /\ pc' = "done"
    /\ UNCHANGED <<semantic_match_results, final_result, error, vectorizer>>
    /\ Inputs /\ Unused

CallAnalyzeExperienceMatch ==
    /\ pc = "call" /\ op = "analyze_experience_match"
    /\ hard_match_results' =
           [experience_match |->
               analyze_experience_match(resume_data.experience,
                                        jd_data.experience_requirements)]
    /\ pc' = "done"
    /\ UNCHANGED <<semantic_match_results, final_result, error, vectorizer>>
    /\ Inputs /\ Unused

\* hard_match_analyzer.analyze(resume_data, jd_data)
HardAnalyze ==
    /\ pc = "call" /\ op = "analyze"
    /\ hard_match_results' = hard_analyze(resume_data, jd_data, library)
    /\ vectorizer' = fit_transform(vectorizer, Get(resume_data, "raw_text", <<>>),
                                   Get(jd_data, "raw_text", <<>>))
    /\ pc' = "semantic"
    /\ UNCHANGED <<semantic_match_results, final_result, error>>
    /\ Inputs /\ Unused

\* semantic_match_analyzer.analyze(resume_data, jd_data)
SemanticAnalyze ==
    /\ pc = "semantic"
    /\ IF semantic_analyze_raises(resume_data, jd_data)
       THEN /\ error' = "KeyError"
            /\ pc' = "failed"
            /\ UNCHANGED semantic_match_results
       ELSE /\ semantic_match_results' = semantic_analyze(resume_data, jd_data, library)
            /\ pc' = "calculate"
            /\ UNCHANGED error
    /\ UNCHANGED <<hard_match_results, final_result, vectorizer>>
    /\ Inputs /\ Unused

\* score_calculator.calculate(hard_match_results, semantic_match_results)
Calculate ==
    /\ pc = "calculate"
    /\ IF calculate_raises(hard_match_results, semantic_match_results)
       THEN /\ error' = "KeyError"
            /\ pc' = "failed"
            /\ UNCHANGED final_result
       ELSE /\ final_result' = calculate(hard_match_results, semantic_match_results)
            /\ pc' = "done"
            /\ UNCHANGED error
    /\ UNCHANGED <<hard_match_results, semantic_match_results, vectorizer>>
    /\ Inputs /\ Unused

\* ScoreCalculator.calculate on results of the shape of its example
InitCalc ==
    /\ op = "calculate"
    /\ pc = "calculate"
    /\ resume_data = NoValue
    /\ jd_data = NoValue
    /\ library = DefaultLibrary
    /\ hard_match_results \in CalcHardResults
    /\ semantic_match_results \in CalcSemanticResults
    /\ final_result = NoValue
    /\ error = "none"
    /\ NoRequest

\* the API process after start-up: nothing served yet
InitRequest ==
    /\ op = "analyze_resume"
    /\ pc = "idle"
    /\ resume_data = NoValue
    /\ jd_data = NoValue
    /\ library \in {lib \in Libraries : lib.tfidf = DefaultLibrary.tfidf}
    /\ Idle

\* the shared vectorizer after a request: refitted when the request reached
\* the hard match
VectorizerAfter(served) ==
    IF InList("hard_match", served.stages)
    THEN fit_transform(vectorizer, Get(served.resume_data, "raw_text", <<>>),
                       Get(served.jd_data, "raw_text", <<>>))
    ELSE vectorizer

\* what a request leaves behind: the two uploaded files, the result file of a
\* success, the response
Serve(id, req, served) ==
    /\ request' = [resume_file |-> req.resume_file, jd_text |-> req.jd_text,
                   jd_title |-> req.jd_title, id |-> id]
    /\ uploads_dir' = uploads_dir \cup {id}
    /\ stages' = served.stages
    /\ resume_data' = served.resume_data
    /\ jd_data' = served.jd_data
    /\ hard_match_results' = served.hard_match_results
    /\ semantic_match_results' = served.semantic_match_results
    /\ final_result' = served.final_result
    /\ error' = served.error
    /\ results_dir' = IF served.saved THEN results_dir \cup {id} ELSE results_dir
    /\ response' = served.response
    /\ calls' = IF served.stages = <<>> THEN <<>> ELSE ParseCalls(req.resume_file)
    /\ vectorizer' = VectorizerAfter(served)
    /\ pc' = "responded"
    /\ UNCHANGED <<op, library, inflight>>

\* POST /analyze
AnalyzeResume ==
    /\ op = "analyze_resume"
    /\ Cardinality(uploads_dir) < MaxRequests
    /\ \E call \in RequestCalls, id \in AnalysisIds \ uploads_dir :
          \E required \in Orders(AllItems(call[1].jd_text, required_patterns, 1)),
             preferred \in Orders(AllItems(call[1].jd_text, preferred_patterns, 1)) :
              Serve(id, call[1],
                    analyze_resume_on_disk(id, call[1], required, preferred, library,
                                           call[2]))

Next ==
    \/ CallAnalyzeSkillMatch
    \/ CallAnalyzeKeywordMatch
    \/ CallAnalyzeEducationMatch
    \/ CallAnalyzeExperienceMatch
    \/ HardAnalyze
    \/ SemanticAnalyze
    \/ Calculate

Spec == Init /\ [][Next]_vars

NextCalc == Calculate

SpecCalc == InitCalc /\ [][NextCalc]_vars

NextRequest == AnalyzeResume

\* the requests of the concurrent analyses: every kind of uploaded file with
\* a lower-case suffix, one job description
ConcurrentRequests ==
    {req \in Requests :
        /\ req.resume_file.suffix # Upper(PDF)
        /\ Len(req.jd_text) = 24
        /\ req.jd_title = <<"None">>}

\* the API process after start-up, serving requests as coroutines of one
\* event loop
InitConcurrent ==
    /\ op = "serve"
    /\ pc = "idle"
    /\ resume_data = NoValue
    /\ jd_data = NoValue
    /\ library = DefaultLibrary
    /\ Idle

\* the request a coroutine works on after a suspension: its own parameters,
\* or the parameters of the coroutine started last
LatestRequest(id) ==
    inflight[CHOOSE other \in DOMAIN inflight :
                 \A x \in DOMAIN inflight :
                     inflight[x].accepted <= inflight[other].accepted].request

OwnRequest(id) == inflight[id].request

\* analyze_resume up to "await resume_file.read()": the id is drawn and the
\* resume file opened, then the coroutine is suspended
Accept ==
    /\ op = "serve"
    /\ Cardinality(DOMAIN inflight) < MaxRequests
    /\ \E req \in ConcurrentRequests, id \in AnalysisIds \ DOMAIN inflight :
          /\ inflight' = inflight @@
                 (id :> [request |-> req, pc |-> "reading", response |-> NoValue,
                         accepted |-> Cardinality(DOMAIN inflight) + 1,
                         responded |-> 0])
          /\ uploads_dir' = uploads_dir \cup {id}
    /\ UNCHANGED <<op, pc, resume_data, jd_data, library, hard_match_results,
                   semantic_match_results, final_result, error, request, stages,
                   response, results_dir, calls, vectorizer>>

\* the coroutines that have responded
Responded == {id \in DOMAIN inflight : inflight[id].pc = "responded"}

\* what the rest of the coroutine leaves behind
Respond(id, served) ==
    /\ inflight' = [inflight EXCEPT ![id].pc = "responded",
                                    ![id].response = served.response,
                                    ![id].responded = Cardinality(Responded) + 1]
    /\ results_dir' = IF served.saved THEN results_dir \cup {id} ELSE results_dir
    /\ vectorizer' = VectorizerAfter(served)
    /\ UNCHANGED <<op, pc, resume_data, jd_data, library, hard_match_results,
                   semantic_match_results, final_result, error, request, stages,
                   response, uploads_dir, calls>>

\* analyze_resume after the await: no statement up to the return or the
\* raise suspends the coroutine, so the rest runs without interleaving
Continue ==
    /\ op = "serve"
    /\ \E id \in DOMAIN inflight :
          /\ inflight[id].pc = "reading"
          /\ \E required \in Orders(AllItems(OwnRequest(id).jd_text, required_patterns, 1)),
                preferred \in Orders(AllItems(OwnRequest(id).jd_text, preferred_patterns, 1)) :
                 Respond(id, analyze_resume(id, OwnRequest(id), required, preferred,
                                            library))

NextConcurrent ==
    \/ Accept
    \/ Continue

SpecConcurrent == InitConcurrent /\ [][NextConcurrent]_vars

\* job descriptions without an introductory phrase of a skill block
PlainJdTexts ==
    {<<"W", "e", " ", "b", "u", "i", "l", "d", " ", "a", "p", "p", "s", ".">>,
     <<"S", "k", "i", "l", "l", "s", ":", " ", "a", "w", "s">>,
     <<"-", " ", "a", "w", "s", "\n", "-", " ", "p", "y">>}

\* resumes handed to the hard match after a job description was parsed: as
\* ResumeParser gives them (no skills), and with a skill list
ParsedJdResumes ==
    {[raw_text |-> TextA],
     [raw_text |-> TextA, skills |-> <<<<"a", "w", "s">>>>],
     [raw_text |-> TextA, skills |-> <<<<"R", "e", "q", "u", "i", "r", "e", "d">>>>],
     [raw_text |-> TextB, skills |-> <<<<"p", "y">>, <<"a", "w", "s">>>>]}

\* JobDescriptionParser.parse followed by HardMatchAnalyzer.analyze
InitJd ==
    /\ op = "jd_parse"
    /\ pc = "call"
    /\ resume_data \in ParsedJdResumes
    /\ jd_data = NoValue
    /\ library \in {lib \in Libraries : lib.overall = DefaultLibrary.overall}
    /\ hard_match_results = NoValue
    /\ semantic_match_results = NoValue
    /\ final_result = NoValue
    /\ error = "none"
    /\ request \in {[jd_text |-> text] : text \in JdTexts \cup PlainJdTexts}
    /\ stages = <<>>
    /\ response = NoValue
    /\ results_dir = {}
    /\ uploads_dir = {}
    /\ calls = <<>>
    /\ vectorizer = Unfitted
    /\ inflight = NoCoroutine

\* jd_parser.parse(text)
JdParse ==
    /\ pc = "call" /\ op = "jd_parse"
    /\ \E required \in Orders(AllItems(request.jd_text, required_patterns, 1)),
          preferred \in Orders(AllItems(request.jd_text, preferred_patterns, 1)) :
           jd_data' = jd_parse(request.jd_text, required, preferred)
    /\ pc' = "parsed"
    /\ UNCHANGED <<op, resume_data, library, hard_match_results,
                   semantic_match_results, final_result, error, request, stages,
                   response, results_dir, uploads_dir, calls, vectorizer, inflight>>

\* hard_match_analyzer.analyze(resume_data, jd_data) on the parsed job
\* description: jd_data['skills'] is the dict of the two lists, and the
\* loops of analyze_skill_match over it run over its keys
HardAnalyzeParsed ==
    /\ pc = "parsed" /\ op = "jd_parse"
    /\ hard_match_results' =
           hard_analyze(resume_data, [jd_data EXCEPT !.skills = DictKeys(jd_data.skills)],
                        library)
    /\ vectorizer' = fit_transform(vectorizer, Get(resume_data, "raw_text", <<>>),
                                   jd_data.raw_text)
    /\ pc' = "done"
    /\ UNCHANGED <<op, resume_data, jd_data, library, semantic_match_results,
                   final_result, error, request, stages, response, results_dir,
                   uploads_dir, calls, inflight>>

NextJd ==
    \/ JdParse
    \/ HardAnalyzeParsed

SpecJd == InitJd /\ [][NextJd]_vars

\* ResumeParser.parse on a file
InitParse ==
    /\ op = "resume_parse"
    /\ pc = "call"
    /\ resume_data = NoValue
    /\ jd_data = NoValue
    /\ library = DefaultLibrary
    /\ hard_match_results = NoValue
    /\ semantic_match_results = NoValue
    /\ final_result = NoValue
    /\ error = "none"
    /\ request \in {[resume_file |-> document] : document \in ParseDocuments}
    /\ stages = <<>>
    /\ response = NoValue
    /\ results_dir = {}
    /\ uploads_dir = {}
    /\ calls = <<>>
    /\ vectorizer = Unfitted
    /\ inflight = NoCoroutine

\* resume_parser.parse(file_path)
ResumeParse ==
    /\ pc = "call" /\ op = "resume_parse"
    /\ calls' = ParseCalls(request.resume_file)
    /\ IF resume_parse(request.resume_file).raises = "none"
       THEN /\ resume_data' = resume_parse(request.resume_file).value
            /\ error' = "none"
            /\ pc' = "done"
       ELSE /\ resume_data' = NoValue
            /\ error' = resume_parse(request.resume_file).raises
            /\ pc' = "failed"
    /\ UNCHANGED <<op, jd_data, library, hard_match_results, semantic_match_results,
                   final_result, request, stages, response, results_dir, uploads_dir,
                   vectorizer, inflight>>

NextParse == ResumeParse

SpecParse == InitParse /\ [][NextParse]_vars

SpecRequest == InitRequest /\ [][NextRequest]_vars

\* most lines of a segmented text
MaxLines == 3

\* a line of n characters that starts with the prefix
Pad(prefix, n) == prefix \o [i \in 1..(n - Len(prefix)) |-> "x"]

\* lines of a text: blank, spaces only, body with and without spaces around
\* it, a header, and header lines that contain several labels
CommonLines ==
    {<<>>, <<" ", " ">>, <<"p", "y">>, <<" ", "a", "w", "s", " ">>, <<"S", "k", "i", "l", "l", "s">>,
     <<"W", "o", "r", "k", " ", "E", "x", "p", "e", "r", "i", "e", "n", "c", "e">>,
     <<"E", "x", "p", "e", "r", "i", "e", "n", "c", "e", " ", "a", "n", "d", " ", "S", "k", "i", "l", "l", "s">>}

\* lines that contain a label and are one character below the header
\* limit, or at it
LongLines(limit) == {Pad(<<"m", "y", " ", "s", "k", "i", "l", "l", "s", " ">>, n) : n \in {limit - 1, limit}}

\* '\n'.join(lines)
SegmentTexts(limit) ==
    {JoinLines(lines) : lines \in SeqsUpTo(CommonLines \cup LongLines(limit), MaxLines)}

\* _extract_sections of either parser on a text
InitSegment ==
    /\ pc = "call"
    /\ \/ /\ op = "resume_sections"
          /\ resume_data \in {[raw_text |-> text] : text \in SegmentTexts(ResumeHeaderLimit)}
          /\ jd_data = NoValue
       \/ /\ op = "jd_sections"
          /\ jd_data \in {[raw_text |-> text] : text \in SegmentTexts(JdHeaderLimit)}
          /\ resume_data = NoValue
    /\ library = DefaultLibrary
    /\ Idle

\* ResumeParser._extract_sections(text)
ResumeExtractSections ==
    /\ pc = "call" /\ op = "resume_sections"
    /\ resume_data' =
           [raw_text |-> resume_data.raw_text,
            sections |-> extract_sections(resume_data.raw_text, ResumeSectionHeaders,
                                          ResumeHeaderLimit, UNKNOWN)]
    /\ pc' = "done"
    /\ UNCHANGED <<op, jd_data, library, hard_match_results, semantic_match_results,
                   final_result, error, vectorizer>>
    /\ Unused

\* JobDescriptionParser._extract_sections(text)
JdExtractSections ==
    /\ pc = "call" /\ op = "jd_sections"
    /\ jd_data' =
           [raw_text |-> jd_data.raw_text,
            sections |-> extract_sections(jd_data.raw_text, JdSectionHeaders,
                                          JdHeaderLimit, DESCRIPTION)]
    /\ pc' = "done"
    /\ UNCHANGED <<op, resume_data, library, hard_match_results,
                   semantic_match_results, final_result, error, vectorizer>>
    /\ Unused

NextSegment ==
    \/ ResumeExtractSections
    \/ JdExtractSections

SpecSegment == InitSegment /\ [][NextSegment]_vars

\* most embedding calls of one analysis whose outcome is scripted
MaxEncodeCalls == 4

\* what self.model.encode(text) does: it returns an embedding, or raises on
\* a transient failure
EncodeOutcomes == {"ok", "transient_failure"}

\* the exception of a failed encode call, as analyze lets it through
EncodeRaised == "Exception: encode"

\* the outcome of the k-th encode call of an analysis; calls beyond the
\* script return
EncodeOutcome(lib, k) == IF k <= Len(lib.encode) THEN lib.encode[k] ELSE "ok"

\* the encode calls of a complete analysis: the two raw texts, then the two
\* section texts of every recorded pair
EncodeCalls(resume, jd, lib) ==
    2 + 2 * Len(calculate_section_similarities(1, resume, jd, lib))

\* the first of the n encode calls that raises; 0: none
FirstFailure(lib, n) ==
    IF \E k \in 1..n : EncodeOutcome(lib, k) = "transient_failure"
    THEN CHOOSE k \in 1..n :
             /\ EncodeOutcome(lib, k) = "transient_failure"
             /\ \A h \in 1..(k - 1) : EncodeOutcome(lib, h) = "ok"
    ELSE 0

\* the log of the encode calls made: the number of each call, once per
\* attempt
EncodeLog(n) == [k \in 1..n |-> k]

EmbeddingResumes == {[raw_text |-> TextA] @@ s : s \in Opt("sections", ResumeSections)}

EmbeddingJds == {[raw_text |-> TextB] @@ s : s \in Opt("sections", JdSections)}

\* SemanticMatchAnalyzer.analyze with an embedding model that may fail
InitEmbedding ==
    /\ op = "semantic_analyze"
    /\ pc = "semantic"
    /\ resume_data \in EmbeddingResumes
    /\ jd_data \in EmbeddingJds
    /\ library \in {lib @@ [encode |-> outcomes] :
                       lib \in Libraries,
                       outcomes \in SeqsUpTo(EncodeOutcomes, MaxEncodeCalls)}
    /\ Idle

\* semantic_match_analyzer.analyze(resume_data, jd_data): every encode call
\* is made once, and the first one that raises ends the analysis
SemanticAnalyzeEmbedding ==
    /\ pc = "semantic" /\ op = "semantic_analyze"
    /\ IF FirstFailure(library, EncodeCalls(resume_data, jd_data, library)) > 0
       THEN /\ error' = EncodeRaised
            /\ pc' = "failed"
            /\ calls' = EncodeLog(FirstFailure(library,
                                               EncodeCalls(resume_data, jd_data, library)))
            /\ UNCHANGED semantic_match_results
       ELSE /\ semantic_match_results' = semantic_analyze(resume_data, jd_data, library)
            /\ pc' = "done"
            /\ calls' = EncodeLog(EncodeCalls(resume_data, jd_data, library))
            /\ UNCHANGED error
    /\ UNCHANGED <<op, resume_data, jd_data, library, hard_match_results, final_result,
                   request, stages, response, results_dir, uploads_dir, vectorizer,
                   inflight>>

NextEmbedding == SemanticAnalyzeEmbedding

SpecEmbedding == InitEmbedding /\ [][NextEmbedding]_vars

-----------------------------------------------------------------------------
(* Properties of HardMatchAnalyzer *)

\* analyze_skill_match has returned
SkillMatchReturned == "skill_match" \in DOMAIN hard_match_results

JobSkills == Get(jd_data, "skills", <<>>)

JobSkillsLower == LowerAll(JobSkills)

ResumeSkillsLower == LowerAll(Get(resume_data, "skills", <<>>))

ExactSet == Range(hard_match_results.skill_match.matched_skills)

FuzzySet ==
    {e[1] : e \in Range(Get(hard_match_results.skill_match,
                             "fuzzy_matched_skills", <<>>))}

MissingSet == Range(hard_match_results.skill_match.missing_skills)

\* C1: after analyze_skill_match the exact matches, the job side of the fuzzy
\* matches and the missing skills are pairwise disjoint and their union is the
\* set of lower-cased job skills
C1_SkillPartition ==
    SkillMatchReturned =>
        /\ ExactSet \cap FuzzySet = {}
        /\ ExactSet \cap MissingSet = {}
        /\ FuzzySet \cap MissingSet = {}
        /\ ExactSet \cup FuzzySet \cup MissingSet = Range(JobSkillsLower)

\* a call whose job list has an exact, a fuzzy and a missing skill
C1_AllThreeClasses ==
    /\ SkillMatchReturned
    /\ ExactSet # {} /\ FuzzySet # {} /\ MissingSet # {}

EducationMatchReturned == "education_match" \in DOMAIN hard_match_results

ExperienceMatchReturned == "experience_match" \in DOMAIN hard_match_results

\* C2: an empty job skill list scores 0, an empty education-requirement list
\* scores 100, an empty experience-requirement list scores 100, whatever the
\* resume holds
C2_VacuousAsymmetry ==
    /\ (SkillMatchReturned /\ JobSkills = <<>>) =>
           /\ hard_match_results.skill_match.skill_match_score = Num(0)
           /\ hard_match_results.skill_match.overall_skill_match_score = Num(0)
    /\ (EducationMatchReturned /\ Get(jd_data, "education_requirements", <<>>) = <<>>) =>
           hard_match_results.education_match.education_match_score = Num(100)
    /\ (ExperienceMatchReturned /\ Get(jd_data, "experience_requirements", <<>>) = <<>>) =>
           hard_match_results.experience_match.experience_match_score = Num(100)

\* an analysis of a resume with skills, education and experience against a
\* job description with none of the three
C2_NothingRequired ==
    /\ SkillMatchReturned /\ EducationMatchReturned /\ ExperienceMatchReturned
    /\ JobSkills = <<>>
    /\ Get(jd_data, "education_requirements", <<>>) = <<>>
    /\ Get(jd_data, "experience_requirements", <<>>) = <<>>
    /\ Get(resume_data, "skills", <<>>) # <<>>
    /\ Get(resume_data, "education", <<>>) # <<>>
    /\ Get(resume_data, "experience", <<>>) # <<>>

\* the job skills found verbatim in the resume list, counted with repetitions
ExactCount ==
    Cardinality({i \in DOMAIN JobSkillsLower :
                    InList(JobSkillsLower[i], ResumeSkillsLower)})

\* the other job skills that some resume skill resembles by more than 0.8
FuzzyCount ==
    Cardinality({i \in DOMAIN JobSkillsLower :
                    /\ ~InList(JobSkillsLower[i], ResumeSkillsLower)
                    /\ \E j \in DOMAIN ResumeSkillsLower :
                           RLt(Rat(8, 10),
                               Ratio(JobSkillsLower[i], ResumeSkillsLower[j]))})

\* C3: for a non-empty job skill list overall_skill_match_score, the skill
\* score that feeds the overall hard score, is
\* (exact_count + 0.8 * fuzzy_count) / len(job skills) * 100; resume
\* [Python, Django] against job [python, aws] has the one exact match python,
\* aws missing and score 50
C3_SkillScore ==
    (SkillMatchReturned /\ JobSkills # <<>>) =>
        /\ Len(hard_match_results.skill_match.matched_skills) = ExactCount
        /\ Len(hard_match_results.skill_match.fuzzy_matched_skills) = FuzzyCount
        /\ RMul(hard_match_results.skill_match.overall_skill_match_score,
                Num(Len(JobSkills)))
               = Num(100 * ExactCount + 80 * FuzzyCount)
        /\ (/\ Get(resume_data, "skills", <<>>) = <<Python, Django>>
            /\ JobSkills = <<Lower(Python), <<"a", "w", "s">>>>) =>
               /\ hard_match_results.skill_match.matched_skills = <<Lower(Python)>>
               /\ hard_match_results.skill_match.missing_skills = <<<<"a", "w", "s">>>>
               /\ hard_match_results.skill_match.overall_skill_match_score = Num(50)

\* a call with one exact, one fuzzy and one missing skill: score 60
C3_ExactAndFuzzy ==
    /\ SkillMatchReturned
    /\ Len(JobSkills) = 3 /\ ExactCount = 1 /\ FuzzyCount = 1
    /\ hard_match_results.skill_match.overall_skill_match_score = Num(60)

\* C4: with required years R > 0 and resume years T, the experience score is
\* 100 if T >= R and T / R * 100 otherwise; T = 3 against "5+ Years" gives 60
C4_ExperienceScore ==
    (/\ ExperienceMatchReturned
     /\ "required_years" \in DOMAIN hard_match_results.experience_match
     /\ hard_match_results.experience_match.required_years > 0) =>
        /\ IF hard_match_results.experience_match.resume_years
                  >= hard_match_results.experience_match.required_years
           THEN hard_match_results.experience_match.experience_match_score = Num(100)
           ELSE RMul(hard_match_results.experience_match.experience_match_score,
                     Num(hard_match_results.experience_match.required_years))
                    = Num(100 * hard_match_results.experience_match.resume_years)
        /\ (/\ Get(resume_data, "experience", <<>>) = <<[duration_years |-> 3]>>
            /\ Get(jd_data, "experience_requirements", <<>>)
                   = <<<<"5", "+", " ", "Y", "e", "a", "r", "s">>>>) =>
               /\ hard_match_results.experience_match.resume_years = 3
               /\ hard_match_results.experience_match.required_years = 5
               /\ hard_match_results.experience_match.experience_match_score = Num(60)

\* three years of experience against "5+ Years"
C4_ThreeOfFive ==
    /\ ExperienceMatchReturned
    /\ Get(resume_data, "experience", <<>>) = <<[duration_years |-> 3]>>
    /\ Get(jd_data, "experience_requirements", <<>>)
           = <<<<"5", "+", " ", "Y", "e", "a", "r", "s">>>>
    /\ hard_match_results.experience_match.experience_match_score = Num(60)

InRange(x) == RLe(Num(0), x) /\ RLe(x, Num(100))

\* every score of the dict d that is named in keys
ScoresInRange(d, keys) == \A k \in keys \cap DOMAIN d : InRange(d[k])

\* C5: every score field lies in [0, 100]
C5_ScoresInRange ==
    /\ SkillMatchReturned =>
           ScoresInRange(hard_match_results.skill_match,
                         {"skill_match_score", "fuzzy_match_score",
                          "overall_skill_match_score"})
    /\ "keyword_match" \in DOMAIN hard_match_results =>
           ScoresInRange(hard_match_results.keyword_match, {"keyword_match_score"})
    /\ EducationMatchReturned =>
           ScoresInRange(hard_match_results.education_match, {"education_match_score"})
    /\ ExperienceMatchReturned =>
           ScoresInRange(hard_match_results.experience_match, {"experience_match_score"})
    /\ ScoresInRange(hard_match_results, {"overall_hard_match_score"})
    /\ ScoresInRange(semantic_match_results, {"semantic_match_score"})
    /\ ScoresInRange(final_result, {"relevance_score"})

\* HardMatchAnalyzer.analyze has returned
HardReturned == "overall_hard_match_score" \in DOMAIN hard_match_results

\* the four component scores of the result of analyze
ComponentScores ==
    <<hard_match_results.skill_match.overall_skill_match_score,
      hard_match_results.keyword_match.keyword_match_score,
      hard_match_results.education_match.education_match_score,
      hard_match_results.experience_match.experience_match_score>>

\* C6: the overall hard score is 0.40 skill + 0.30 keyword + 0.15 education
\* + 0.15 experience of the component scores of the same result, and so lies
\* between the least and the greatest of them
C6_OverallHardScore ==
    HardReturned =>
        /\ RMul(hard_match_results.overall_hard_match_score, Num(100))
               = RAdd(RAdd(RMul(Num(40), ComponentScores[1]),
                           RMul(Num(30), ComponentScores[2])),
                      RAdd(RMul(Num(15), ComponentScores[3]),
                           RMul(Num(15), ComponentScores[4])))
        /\ \E i \in 1..4 :
               RLe(ComponentScores[i], hard_match_results.overall_hard_match_score)
        /\ \E i \in 1..4 :
               RLe(hard_match_results.overall_hard_match_score, ComponentScores[i])

\* an analysis whose four component scores differ from one another
C6_DistinctComponents ==
    /\ HardReturned
    /\ \A i, j \in 1..4 : i # j => ComponentScores[i] # ComponentScores[j]

-----------------------------------------------------------------------------
(* Properties of ScoreCalculator *)

\* calculate has returned a final record
CalcReturned == pc = "done" /\ IsValue(final_result)

\* 0.6 * hard + 0.4 * semantic, exactly
ExactScore ==
    RDiv(RAdd(RMul(Num(6), hard_match_results.overall_hard_match_score),
              RMul(Num(4), semantic_match_results.semantic_match_score)),
         Num(10))

\* C7: relevance_score is 0.6 * overall_hard_match_score
\* + 0.4 * semantic_match_score rounded to two decimals: it has at most two
\* decimal digits and is within 0.005 of the weighted sum
C7_RelevanceScore ==
    CalcReturned =>
        /\ 100 % final_result.relevance_score[2] = 0
        /\ RLe(RAdd(final_result.relevance_score, Rat(-1, 200)), ExactScore)
        /\ RLe(ExactScore, RAdd(final_result.relevance_score, Rat(1, 200)))

\* a calculation whose weighted sum has more than two decimals
C7_Rounded ==
    /\ CalcReturned
    /\ final_result.relevance_score # ExactScore

VerdictRank(verdict) ==
    CASE verdict = "Low" -> 1 [] verdict = "Medium" -> 2 [] verdict = "High" -> 3

\* C8: the verdict is High iff relevance_score >= 75, Medium iff
\* 50 <= relevance_score < 75, Low iff relevance_score < 50; 75 is High, 74.99
\* and 50 are Medium, 49.99 is Low; a higher score never has a lower verdict
C8_VerdictStepFunction ==
    /\ CalcReturned =>
           /\ final_result.verdict = "High"
                  <=> RLe(Num(75), final_result.relevance_score)
           /\ final_result.verdict = "Medium"
                  <=> /\ RLe(Num(50), final_result.relevance_score)
                      /\ RLt(final_result.relevance_score, Num(75))
           /\ final_result.verdict = "Low"
                  <=> RLt(final_result.relevance_score, Num(50))
    /\ generate_verdict(Num(75)) = "High"
    /\ generate_verdict(Rat(7499, 100)) = "Medium"
    /\ generate_verdict(Num(50)) = "Medium"
    /\ generate_verdict(Rat(4999, 100)) = "Low"
    /\ \A a, b \in CalcScores \cup {Num(-50)} :
           RLe(a, b) => VerdictRank(generate_verdict(a)) <= VerdictRank(generate_verdict(b))

\* a calculation that returns the score 74.99 with the verdict Medium
C8_JustBelowHigh ==
    /\ CalcReturned
    /\ final_result.relevance_score = Rat(7499, 100)
    /\ final_result.verdict = "Medium"

\* C9: calculate completes on every pair of results the two analyzers
\* return: every key it reads is in the hard-match result
C9_CalculateCompletes ==
    (op = "analyze" /\ IsValue(semantic_match_results) /\ pc \in {"done", "failed"}) =>
        /\ pc = "done"
        /\ error = "none"
        /\ IsValue(final_result)

-----------------------------------------------------------------------------
(* Properties of analyze_resume *)

\* the resume of the served request is a PDF or DOCX file with text in it
ExtractableResume ==
    /\ IsValue(request)
    /\ ExtractText(request.resume_file).raises = "none"
    /\ Strip(ExtractText(request.resume_file).value) # <<>>

\* C10: a request with an extractable PDF or DOCX resume and a job text runs
\* resume parse, job-description parse, hard match, semantic match and score
\* calculation in this order and returns a result record with the fresh id,
\* relevance_score, verdict, missing_elements and suggestions
C10_RequestRunsAllStages ==
    (pc = "responded" /\ ExtractableResume /\ request.jd_text # <<>>) =>
        /\ stages = AllStages
        /\ response.status_code = 200
        /\ response.result.id = request.id
        /\ {"relevance_score", "verdict", "missing_elements", "suggestions"}
               \subseteq DOMAIN response.result

\* the served request ended in an exception
RequestFailed == pc = "responded" /\ error # "none"

-----------------------------------------------------------------------------
(* Properties of the suggestions *)

\* the number of the rule that wrote a suggestion
RuleNumber(rule) ==
    CASE rule = "required" -> 1 [] rule = "preferred" -> 2 [] rule = "keywords" -> 3
      [] rule = "education" -> 4 [] rule = "experience" -> 5 [] rule = "section" -> 6

\* the rule numbers of the returned suggestions, in the order of the list
ReturnedRules ==
    [i \in 1..Len(final_result.suggestions) |->
        RuleNumber(final_result.suggestions[i].rule)]

\* the rule numbers are strictly increasing: every rule at most once and
\* none before a lower-numbered one
SuggestionsInRuleOrder ==
    \A i, j \in 1..Len(ReturnedRules) : i < j => ReturnedRules[i] < ReturnedRules[j]

\* the least of the recorded section similarities is below 0.7
WeakSection(section_similarities) ==
    \E i \in 1..Len(section_similarities) :
        RLt(section_similarities[i][2], LowSimilarity)

\* the triggering condition of each rule on the calculator's inputs: a
\* non-empty missing list (1, 2, 3), an education score below 100 (4), an
\* experience score below 100 with required years above current years (5),
\* a recorded section similarity below 0.7 (6)
Triggered(r) ==
    CASE r = 1 -> hard_match_results.skill_match.missing_required # <<>>
      [] r = 2 -> hard_match_results.skill_match.missing_preferred # <<>>
      [] r = 3 -> hard_match_results.keyword_match.missing_keywords # <<>>
      [] r = 4 -> RLt(hard_match_results.education_match.education_match_score, Num(100))
      [] r = 5 -> /\ RLt(hard_match_results.experience_match.experience_match_score,
                         Num(100))
                  /\ hard_match_results.experience_match.jd_required_years
                         > hard_match_results.experience_match.resume_experience_years
      [] r = 6 -> WeakSection(Get(semantic_match_results, "section_similarities", <<>>))

\* C12: the suggestions are a subsequence of the rule order 1..6, a rule's
\* sentence being in the list iff its triggering condition holds, at most
\* once and after the sentences of the lower-numbered rules; a second run on
\* the same inputs returns the same list
C12_SuggestionRules ==
    CalcReturned =>
        /\ SuggestionsInRuleOrder
        /\ \A r \in 1..6 : (r \in Range(ReturnedRules)) <=> Triggered(r)
        /\ calculate(hard_match_results, semantic_match_results).suggestions
               = final_result.suggestions

\* a calculation on a resume with no experience against a five-year
\* requirement
C12_NoExperience ==
    /\ CalcReturned
    /\ "resume_experience_years" \in DOMAIN hard_match_results.experience_match
    /\ hard_match_results.experience_match.resume_experience_years = 0
    /\ hard_match_results.experience_match.jd_required_years = 5

-----------------------------------------------------------------------------
(* Properties of ResumeParser *)

\* ResumeParser.parse has returned or raised
ParseEnded == op = "resume_parse" /\ pc \in {"done", "failed"}

\* the suffix of the parsed file, lower-cased, is neither .pdf nor .docx
OtherFormat == Lower(request.resume_file.suffix) \notin {PDF, DOCX}

\* C13: parse on a file that is neither pdf nor docx fails with the
\* unsupported-format error, and has invoked no extractor and no section
\* segmentation
C13_UnsupportedFormat ==
    (ParseEnded /\ OtherFormat) =>
        /\ pc = "failed"
        /\ error = UnsupportedFormat
        /\ calls = <<>>
        /\ resume_data = NoValue

\* a parsed .pdfx file whose content every extractor could read
C13_ReadablePdfx ==
    /\ ParseEnded
    /\ request.resume_file.suffix = <<".", "p", "d", "f", "x">>
    /\ request.resume_file.fitz = Returned(ResumeText)
    /\ request.resume_file.pdfplumber = Returned(ResumeText)
    /\ request.resume_file.docx2txt = Returned(ResumeText)

\* the parsed file took the PDF path
PdfPath == ParseEnded /\ Lower(request.resume_file.suffix) = PDF

\* the first strategy raised or returned text with no non-whitespace character
FirstUnusable ==
    \/ request.resume_file.fitz.raises # "none"
    \/ Strip(request.resume_file.fitz.value) = <<>>

\* C14: on the PDF path the second strategy is attempted iff the first
\* raised or returned only whitespace; non-whitespace text of the first is
\* the result without the second being invoked; the call fails, with the
\* extraction error, only when the first was unusable and the second raises
C14_PdfFallback ==
    PdfPath =>
        /\ calls[1] = "fitz"
        /\ InList("pdfplumber", calls) <=> FirstUnusable
        /\ ~FirstUnusable =>
               /\ pc = "done"
               /\ resume_data.raw_text = request.resume_file.fitz.value
               /\ calls = <<"fitz", "extract_sections">>
        /\ pc = "failed" <=>
               (FirstUnusable /\ request.resume_file.pdfplumber.raises # "none")
        /\ pc = "failed" => error = ExtractionFailed
        /\ (FirstUnusable /\ pc = "done") =>
               resume_data.raw_text = request.resume_file.pdfplumber.value

\* a PDF whose first strategy returns only whitespace and whose second
\* returns the text
C14_SecondStrategyUsed ==
    /\ PdfPath
    /\ request.resume_file.fitz = Returned(<<" ", "\n">>)
    /\ pc = "done"
    /\ resume_data.raw_text = ResumeText
    /\ calls = <<"fitz", "pdfplumber", "extract_sections">>

-----------------------------------------------------------------------------
(* Properties of the keyword match *)

KeywordMatchReturned == "keyword_match" \in DOMAIN hard_match_results

ResumeRawText == Get(resume_data, "raw_text", <<>>)

JdRawText == Get(jd_data, "raw_text", <<>>)

\* a raw text is empty, or no term is left in either text after cleaning and
\* stop-word removal
NoKeywords ==
    \/ ResumeRawText = <<>>
    \/ JdRawText = <<>>
    \/ VectorizerRaises(clean_text(JdRawText), clean_text(ResumeRawText))

\* C15: analyze_keyword_match always returns a keyword_match_score, which is
\* 0 when a raw text is empty or the vectorizer raises on an empty
\* vocabulary, and HardMatchAnalyzer.analyze then still returns the other
\* three component scores and the overall score
C15_KeywordMatchRecovers ==
    /\ (op = "analyze_keyword_match" /\ pc # "call") =>
           pc = "done" /\ error = "none" /\ KeywordMatchReturned
    /\ KeywordMatchReturned =>
           /\ "keyword_match_score" \in DOMAIN hard_match_results.keyword_match
           /\ NoKeywords =>
                  Get(hard_match_results.keyword_match, "keyword_match_score", NoValue)
                      = Num(0)
    /\ (op = "analyze" /\ pc # "call") =>
           /\ HardReturned
           /\ KeywordMatchReturned
           /\ "overall_skill_match_score" \in DOMAIN hard_match_results.skill_match
           /\ "education_match_score" \in DOMAIN hard_match_results.education_match
           /\ "experience_match_score" \in DOMAIN hard_match_results.experience_match

\* a keyword match of two non-empty texts that hold only stop words and
\* punctuation
C15_OnlyStopWords ==
    /\ op = "analyze_keyword_match" /\ pc = "done"
    /\ ResumeRawText # <<>> /\ JdRawText # <<>>
    /\ VectorizerRaises(clean_text(JdRawText), clean_text(ResumeRawText))
    /\ hard_match_results.keyword_match.keyword_match_score = Num(0)

-----------------------------------------------------------------------------
(* Properties of concurrent requests *)

\* the response of the request alone, from a fresh process
AloneResponses(id) ==
    {analyze_resume(id, inflight[id].request, required, preferred, library).response :
        required \in Orders(AllItems(inflight[id].request.jd_text, required_patterns, 1)),
        preferred \in Orders(AllItems(inflight[id].request.jd_text, preferred_patterns, 1))}

-----------------------------------------------------------------------------
(* Properties of a parsed job description in the hard match *)

\* the job description holds none of the phrases that open a skill block
NoSkillPhrase ==
    /\ \A i \in 1..Len(required_patterns) :
           Find(Lower(request.jd_text), required_patterns[i][1], 1) = 0
    /\ \A i \in 1..Len(preferred_patterns) :
           Find(Lower(request.jd_text), preferred_patterns[i][1], 1) = 0

\* the two skill lists of the parsed job description are empty
NoSkillsParsed ==
    \A i \in 1..Len(jd_data.skills) : jd_data.skills[i][2] = <<>>

\* C17: a job description without an introductory phrase parses to empty
\* required and preferred skill lists, and the hard match on it gives the
\* skill score 0 with empty matched and missing skill lists
C17_NoPhraseZeroSkills ==
    (op = "jd_parse" /\ NoSkillPhrase) =>
        /\ pc # "call" => NoSkillsParsed
        /\ pc = "done" =>
               /\ hard_match_results.skill_match.skill_match_score = Num(0)
               /\ hard_match_results.skill_match.overall_skill_match_score = Num(0)
               /\ hard_match_results.skill_match.matched_skills = <<>>
               /\ hard_match_results.skill_match.missing_skills = <<>>

\* a plain job description analysed against a resume that lists a skill
C17_PlainJdAnalysed ==
    /\ op = "jd_parse" /\ pc = "done"
    /\ NoSkillPhrase
    /\ NoSkillsParsed
    /\ Get(resume_data, "skills", <<>>) # <<>>

-----------------------------------------------------------------------------
(* Properties of SemanticMatchAnalyzer *)

\* SemanticMatchAnalyzer.analyze has returned
SemanticReturned == op = "analyze" /\ IsValue(semantic_match_results)

\* the recorded section similarities, in the order they were recorded
RecordedValues ==
    [i \in 1..Len(semantic_match_results.section_similarities) |->
        semantic_match_results.section_similarities[i][2]]

RECURSIVE SumOf(_)
SumOf(values) ==
    IF values = <<>> THEN Num(0) ELSE RAdd(Head(values), SumOf(Tail(values)))

\* C18: semantic_match_score is (0.6 * overall_similarity + 0.4 * mean of
\* the section similarities) * 100 when a section pair was recorded, and
\* overall_similarity * 100 when none was
C18_SemanticScore ==
    SemanticReturned =>
        IF RecordedValues # <<>>
        THEN RMul(semantic_match_results.semantic_match_score,
                  Num(Len(RecordedValues)))
                 = RAdd(RMul(Num(60 * Len(RecordedValues)),
                             semantic_match_results.overall_similarity),
                        RMul(Num(40), SumOf(RecordedValues)))
        ELSE semantic_match_results.semantic_match_score
                 = RMul(Num(100), semantic_match_results.overall_similarity)

\* an analysis with section similarities that differ from one another and
\* from the overall similarity
C18_MixedSimilarities ==
    /\ SemanticReturned
    /\ Len(RecordedValues) >= 2
    /\ \E i, j \in DOMAIN RecordedValues : RecordedValues[i] # RecordedValues[j]
    /\ \A i \in DOMAIN RecordedValues :
           RecordedValues[i] # semantic_match_results.overall_similarity

\* the document has a section whose label contains the label, whatever the
\* case
HasSection(document, label) ==
    \E i \in 1..Len(Get(document, "sections", <<>>)) :
        IsSubstring(Lower(label), Lower(document.sections[i][1]))

RecordedKeys ==
    {semantic_match_results.section_similarities[i][1] :
        i \in 1..Len(semantic_match_results.section_similarities)}

\* the semantic match was invoked with a raw text on both sides, and has
\* ended
SemanticEnded ==
    /\ op = "analyze" /\ pc \in {"calculate", "done", "failed"}
    /\ "raw_text" \in DOMAIN resume_data /\ "raw_text" \in DOMAIN jd_data

\* C19: the key R-J is recorded iff the resume has a section whose label
\* contains R and the job description one whose label contains J; a section
\* absent on either side, or no sections at all, omits the key and raises
\* nothing
C19_SectionKeys ==
    SemanticEnded =>
        /\ IsValue(semantic_match_results)
        /\ \A r \in 1..Len(section_mappings) :
               \A j \in 1..Len(section_mappings[r].jd) :
                   (SectionKey(section_mappings[r].resume, section_mappings[r].jd[j])
                        \in RecordedKeys)
                   <=> /\ HasSection(resume_data, section_mappings[r].resume)
                       /\ HasSection(jd_data, section_mappings[r].jd[j])

-----------------------------------------------------------------------------
(* Properties of the fuzzy skill match *)

\* the greatest similarity ratio of a resume skill to the job skill
BestRatio(jd_skill) ==
    CHOOSE x \in {Ratio(jd_skill, ResumeSkillsLower[k]) : k \in DOMAIN ResumeSkillsLower} :
        \A k \in DOMAIN ResumeSkillsLower : RLe(Ratio(jd_skill, ResumeSkillsLower[k]), x)

\* the earliest resume skill at the greatest ratio
BestCandidate(jd_skill) ==
    ResumeSkillsLower[
        CHOOSE k \in DOMAIN ResumeSkillsLower :
            /\ Ratio(jd_skill, ResumeSkillsLower[k]) = BestRatio(jd_skill)
            /\ \A h \in 1..(k - 1) :
                   Ratio(jd_skill, ResumeSkillsLower[h]) # BestRatio(jd_skill)]

\* some resume skill resembles the job skill by more than 0.8
Resembled(jd_skill) ==
    \E k \in DOMAIN ResumeSkillsLower :
        RLt(Rat(8, 10), Ratio(jd_skill, ResumeSkillsLower[k]))

FuzzyReported == hard_match_results.skill_match.fuzzy_matched_skills

\* C20: a job skill without an exact match is a fuzzy match iff some resume
\* skill has a ratio above 0.8 to it (0.8 itself is not enough), and is
\* missing otherwise; the candidate recorded is the earliest resume skill
\* at the greatest ratio
C20_FuzzyMatch ==
    (SkillMatchReturned /\ JobSkills # <<>>) =>
        /\ \A i \in DOMAIN JobSkillsLower :
               ~InList(JobSkillsLower[i], ResumeSkillsLower) =>
                   /\ JobSkillsLower[i] \in FuzzySet <=> Resembled(JobSkillsLower[i])
                   /\ JobSkillsLower[i] \in MissingSet <=> ~Resembled(JobSkillsLower[i])
        /\ \A e \in DOMAIN FuzzyReported :
               /\ FuzzyReported[e][2] = BestCandidate(FuzzyReported[e][1])
               /\ RLt(Rat(8, 10), Ratio(FuzzyReported[e][1], FuzzyReported[e][2]))
        /\ Ratio(<<"a", "w", "s">>, <<"a", "w">>) = Rat(8, 10)
        /\ (ResumeSkillsLower = <<<<"a", "w">>>> /\ JobSkillsLower = <<<<"a", "w", "s">>>>) =>
               /\ FuzzyReported = <<>>
               /\ MissingSet = {<<"a", "w", "s">>}

\* two resume skills at the same ratio to the job skill: the first is
\* recorded
C20_TieFirstWins ==
    /\ SkillMatchReturned
    /\ ResumeSkillsLower = <<<<"a", "w", "s", "s">>, <<"a", "a", "w", "s">>>>
    /\ Ratio(<<"a", "w", "s">>, <<"a", "w", "s", "s">>)
           = Ratio(<<"a", "w", "s">>, <<"a", "a", "w", "s">>)
    /\ Len(FuzzyReported) = 1
    /\ FuzzyReported[1][2] = <<"a", "w", "s", "s">>

-----------------------------------------------------------------------------
(* Properties of the experience and education matches *)

ExperienceLines == Get(jd_data, "experience_requirements", <<>>)

\* the numbers the requirement lines yield, one per line that matches
LineNumbers ==
    {SearchYears(ExperienceLines[i]) : i \in DOMAIN ExperienceLines} \ {-1}

\* C21: required_years is the maximum of the numbers found over the job
\* requirement lines, one number per matching line, whatever the order of
\* the lines; when no line yields a number required_years is 0 and the
\* score is 100
C21_RequiredYearsIsMaximum ==
    (ExperienceMatchReturned /\ ExperienceLines # <<>>) =>
        IF LineNumbers = {}
        THEN /\ hard_match_results.experience_match.required_years = 0
             /\ hard_match_results.experience_match.experience_match_score = Num(100)
        ELSE /\ hard_match_results.experience_match.required_years \in LineNumbers
             /\ \A n \in LineNumbers :
                    n <= hard_match_results.experience_match.required_years

\* "5+ Years" stated before "3 yrs": the larger number governs although a
\* smaller one comes later
C21_LargerStatedFirst ==
    /\ ExperienceMatchReturned
    /\ ExperienceLines = <<<<"5", "+", " ", "Y", "e", "a", "r", "s">>,
                           <<"3", " ", "y", "r", "s">>>>
    /\ LineNumbers = {3, 5}
    /\ hard_match_results.experience_match.required_years = 5

EducationLines == Get(jd_data, "education_requirements", <<>>)

\* some non-empty degree string of the resume contains the requirement or
\* is contained in it, whatever the case
DegreeCovers(req) ==
    \E k \in 1..Len(Get(resume_data, "education", <<>>)) :
        LET degree == Lower(Get(resume_data.education[k], "degree", <<>>))
        IN  /\ degree # <<>>
            /\ \/ IsSubstring(Lower(req), degree)
               \/ IsSubstring(degree, Lower(req))

\* C22: with a non-empty requirement list, a requirement is in
\* matched_degrees iff some non-empty resume degree contains it or is
\* contained in it (case-insensitive), otherwise in missing_degrees; the two
\* lists partition the requirement list, each requirement counted once, and
\* the score is len(matched) / len(requirements) * 100
C22_EducationMatch ==
    (EducationMatchReturned /\ EducationLines # <<>>) =>
        /\ hard_match_results.education_match.matched_degrees
               = SelectSeq(EducationLines, LAMBDA req : DegreeCovers(req))
        /\ hard_match_results.education_match.missing_degrees
               = SelectSeq(EducationLines, LAMBDA req : ~DegreeCovers(req))
        /\ Len(hard_match_results.education_match.matched_degrees)
               + Len(hard_match_results.education_match.missing_degrees)
               = Len(EducationLines)
        /\ RMul(hard_match_results.education_match.education_match_score,
                Num(Len(EducationLines)))
               = Num(100 * Len(hard_match_results.education_match.matched_degrees))

\* a requirement that contains the resume degree is matched, one the resume
\* does not cover is missing, and an entry with an empty degree covers
\* nothing: score 50
C22_DegreeInsideRequirement ==
    /\ EducationMatchReturned
    /\ Get(resume_data, "education", <<>>)
           = <<[degree |-> <<>>], [degree |-> <<"b", "s", "c">>]>>
    /\ EducationLines = <<<<"B", "S", "c", " ", "h", "o", "n", "s">>, <<"M", "S", "c">>>>
    /\ hard_match_results.education_match.matched_degrees
           = <<<<"B", "S", "c", " ", "h", "o", "n", "s">>>>
    /\ hard_match_results.education_match.missing_degrees = <<<<"M", "S", "c">>>>
    /\ hard_match_results.education_match.education_match_score = Num(50)

-----------------------------------------------------------------------------
(* Properties of the missing-elements report and of the single suggestions *)

\* the suggestions a rule wrote
SuggestionsOf(rule) ==
    SelectSeq(final_result.suggestions, LAMBDA s : s.rule = rule)

EducationScore == hard_match_results.education_match.education_match_score

ExperienceScoreRead == hard_match_results.experience_match.experience_match_score

\* C23: in the missing_elements report the education block is non-empty iff
\* education_match_score < 100 and the experience block is non-empty iff
\* experience_match_score < 100; at a score of exactly 100 the block is the
\* empty mapping and no education / experience suggestion is produced
C23_GapBlocks ==
    CalcReturned =>
        /\ (DOMAIN final_result.missing_elements.education # {})
               <=> RLt(EducationScore, Num(100))
        /\ (DOMAIN final_result.missing_elements.experience # {})
               <=> RLt(ExperienceScoreRead, Num(100))
        /\ EducationScore = Num(100) =>
               /\ final_result.missing_elements.education = EmptyDict
               /\ SuggestionsOf("education") = <<>>
        /\ ExperienceScoreRead = Num(100) =>
               /\ final_result.missing_elements.experience = EmptyDict
               /\ SuggestionsOf("experience") = <<>>

\* a report with an education score of exactly 100 and an experience score
\* of 60: one block empty, the other filled
C23_OneBlockEmpty ==
    /\ CalcReturned
    /\ EducationScore = Num(100)
    /\ ExperienceScoreRead = Num(60)
    /\ final_result.missing_elements.education = EmptyDict
    /\ final_result.missing_elements.experience
           = [required_years |-> 5, current_years |-> 3]

\* the limit of each list rule
ListLimit(rule) == IF rule = "preferred" THEN 3 ELSE 5

\* the missing list each list rule reads
MissingList(rule) ==
    CASE rule = "required" -> hard_match_results.skill_match.missing_required
      [] rule = "preferred" -> hard_match_results.skill_match.missing_preferred
      [] rule = "keywords" -> hard_match_results.keyword_match.missing_keywords

\* the smaller of two numbers
Min(a, b) == IF a < b THEN a ELSE b

\* C24: a missing list of n > 0 items gives one suggestion that names exactly
\* the first min(n, k) items in their order (k = 5 for required skills and
\* keywords, 3 for preferred skills) and carries "and N more" iff n > k, with
\* N = n - k; an empty list gives no suggestion
C24_ListSuggestions ==
    CalcReturned =>
        \A rule \in {"required", "preferred", "keywords"} :
            LET items == MissingList(rule)
                n == Len(items)
                k == ListLimit(rule)
            IN  IF n = 0
                THEN SuggestionsOf(rule) = <<>>
                ELSE /\ Len(SuggestionsOf(rule)) = 1
                     /\ SuggestionsOf(rule)[1].names
                            = [i \in 1..Min(n, k) |-> items[i]]
                     /\ SuggestionsOf(rule)[1].more # 0 <=> n > k
                     /\ n > k => SuggestionsOf(rule)[1].more = n - k

\* five required skills (all named, no suffix), three preferred skills (all
\* named, no suffix) and six keywords (five named, "and 1 more")
C24_AtAndAboveLimit ==
    /\ CalcReturned
    /\ Len(MissingList("required")) = 5
    /\ Len(MissingList("preferred")) = 3
    /\ Len(MissingList("keywords")) = 6
    /\ SuggestionsOf("required")[1].more = 0
    /\ SuggestionsOf("preferred")[1].more = 0
    /\ Len(SuggestionsOf("keywords")[1].names) = 5
    /\ SuggestionsOf("keywords")[1].more = 1

\* the experience gap block of the report has both year counts, and the
\* current one is not negative
GapBlockWithYears ==
    /\ CalcReturned
    /\ HasKeys(final_result.missing_elements.experience,
               {"required_years", "current_years"})
    /\ final_result.missing_elements.experience.current_years >= 0

\* C25: for an experience gap block with required years r and current years
\* c >= 0, c = 0 included, the experience suggestion is appended iff r > c
C25_ExperienceGapSuggestion ==
    GapBlockWithYears =>
        (SuggestionsOf("experience") # <<>>)
            <=> final_result.missing_elements.experience.required_years
                    > final_result.missing_elements.experience.current_years

\* the section similarities the calculator reads, in iteration order
SimilaritiesRead == Get(semantic_match_results, "section_similarities", <<>>)

\* the position of the first entry whose value no entry is below
FirstMinimum ==
    CHOOSE i \in DOMAIN SimilaritiesRead :
        /\ \A j \in DOMAIN SimilaritiesRead :
               RLe(SimilaritiesRead[i][2], SimilaritiesRead[j][2])
        /\ \A j \in 1..(i - 1) : SimilaritiesRead[j][2] # SimilaritiesRead[i][2]

\* the resume label of a key "R-J", lower-cased as the sentence prints it
ResumeLabelOf(key) ==
    Lower(SubSeq(key, 1, (CHOOSE p \in DOMAIN key :
                             key[p] = "-" /\ \A q \in 1..(p - 1) : key[q] # "-") - 1))

\* C26: the weakest-section suggestion is appended iff section_similarities
\* is non-empty and its minimum value is strictly below 0.7; it names the
\* resume label of the minimum entry, the first in iteration order among
\* entries of the same minimum value
C26_WeakestSection ==
    CalcReturned =>
        /\ (SuggestionsOf("section") # <<>>)
               <=> /\ SimilaritiesRead # <<>>
                   /\ RLt(SimilaritiesRead[FirstMinimum][2], Rat(7, 10))
        /\ SuggestionsOf("section") # <<>> =>
               /\ Len(SuggestionsOf("section")) = 1
               /\ SuggestionsOf("section")[1].names
                      = <<ResumeLabelOf(SimilaritiesRead[FirstMinimum][1])>>

\* SKILLS-REQUIREMENTS and EDUCATION-QUALIFICATIONS tied at the least value:
\* the sentence names the skills section
C26_TieNamesFirst ==
    /\ CalcReturned
    /\ Len(SimilaritiesRead) = 3
    /\ SimilaritiesRead[2][2] = SimilaritiesRead[3][2]
    /\ RLt(SimilaritiesRead[2][2], SimilaritiesRead[1][2])
    /\ SuggestionsOf("section")[1].names = <<Lower(SKILLS)>>

-----------------------------------------------------------------------------
(* Properties of the two segmenters *)

\* a segmenter has returned
Segmented == op \in {"resume_sections", "jd_sections"} /\ pc = "done"

OfResume == op = "resume_sections"

\* the segmented text, its sections, the label list, the length limit and
\* the default label of the segmenter that ran
SegmentedText == IF OfResume THEN resume_data.raw_text ELSE jd_data.raw_text

SectionsOut == IF OfResume THEN resume_data.sections ELSE jd_data.sections

Labels == IF OfResume THEN ResumeSectionHeaders ELSE JdSectionHeaders

Threshold == IF OfResume THEN 50 ELSE 100

DefaultLabel == IF OfResume THEN UNKNOWN ELSE DESCRIPTION

\* the lines of the text, stripped
TextLines == StripAll(SplitOn(SegmentedText, {"\n"}))

\* the line contains a recognized label, whatever the case, and is shorter
\* than the threshold
IsHeaderLine(line) ==
    /\ line # <<>>
    /\ Len(line) < Threshold
    /\ \E h \in DOMAIN Labels : IsSubstring(Lower(Labels[h]), Lower(line))

IsBodyLine(line) == line # <<>> /\ ~IsHeaderLine(line)

\* the label listed first among those the line contains
FirstListed(line) ==
    Labels[CHOOSE h \in DOMAIN Labels :
               /\ IsSubstring(Lower(Labels[h]), Lower(line))
               /\ \A g \in 1..(h - 1) : ~IsSubstring(Lower(Labels[g]), Lower(line))]

\* the positions of the header lines above line i
HeadersAbove(i) == {j \in 1..(i - 1) : IsHeaderLine(TextLines[j])}

\* the label of the most recent header above line i, or the default label
LabelAbove(i) ==
    IF HeadersAbove(i) = {} THEN DefaultLabel
    ELSE FirstListed(TextLines[CHOOSE j \in HeadersAbove(i) :
                                   \A k \in HeadersAbove(i) : k <= j])

\* the positions of the body lines under a label, in increasing order
BodyPositions(label) ==
    {i \in DOMAIN TextLines : IsBodyLine(TextLines[i]) /\ LabelAbove(i) = label}

RECURSIVE LinesAt(_)
LinesAt(positions) ==
    IF positions = {} THEN <<>>
    ELSE LET first == CHOOSE i \in positions : \A j \in positions : i <= j
         IN  <<TextLines[first]>> \o LinesAt(positions \ {first})

\* the labels of the returned sections, and the content of one of them
SectionLabels == {SectionsOut[s][1] : s \in DOMAIN SectionsOut}

ContentOf(label) ==
    SectionsOut[CHOOSE s \in DOMAIN SectionsOut : SectionsOut[s][1] = label][2]

\* C27: every non-blank line that is no header is in the output exactly
\* once, under the label of the most recent header above it (or the default
\* label), in the original order; blank lines and header lines are in no
\* content; this for every line sequence, a label matched by several header
\* lines included
C27_LinesKeptUnderTheirHeader ==
    Segmented =>
        \A label \in SectionLabels \cup {LabelAbove(i) : i \in DOMAIN TextLines} :
            /\ label \in SectionLabels
            /\ ContentOf(label) = JoinLines(LinesAt(BodyPositions(label)))

\* no label is opened by two header lines
NoLabelReopened ==
    \A i, j \in DOMAIN TextLines :
        (/\ i < j /\ IsHeaderLine(TextLines[i]) /\ IsHeaderLine(TextLines[j]))
            => FirstListed(TextLines[i]) # FirstListed(TextLines[j])

\* the lines of a section's content
ContentLines(label) == Range(SplitOn(ContentOf(label), {"\n"}))

\* C28: a stripped non-blank line starts a new section iff it contains a
\* recognized label, whatever the case, and is strictly shorter than the
\* threshold (50 for resumes, 100 for job descriptions); a line of exactly
\* the threshold length that contains a label is body text
C28_HeaderCriterion ==
    (Segmented /\ NoLabelReopened) =>
        \A i \in DOMAIN TextLines :
            TextLines[i] # <<>> =>
                IF /\ Len(TextLines[i]) < Threshold
                   /\ \E h \in DOMAIN Labels :
                          IsSubstring(Lower(Labels[h]), Lower(TextLines[i]))
                THEN /\ \A label \in SectionLabels :
                            TextLines[i] \notin ContentLines(label)
                     /\ \A k \in (i + 1)..Len(TextLines) :
                            (/\ IsBodyLine(TextLines[k])
                             /\ \A m \in (i + 1)..(k - 1) : ~IsHeaderLine(TextLines[m]))
                                => /\ LabelAbove(k) \in SectionLabels
                                   /\ TextLines[k] \in ContentLines(LabelAbove(k))
                ELSE /\ LabelAbove(i) \in SectionLabels
                     /\ TextLines[i] \in ContentLines(LabelAbove(i))

\* a line of exactly the threshold length that contains a label, after a
\* header: it is body text of that header's section
C28_LineAtThreshold ==
    /\ Segmented
    /\ Len(TextLines) = 2
    /\ IsHeaderLine(TextLines[1])
    /\ Len(TextLines[2]) = Threshold
    /\ \E h \in DOMAIN Labels : IsSubstring(Lower(Labels[h]), Lower(TextLines[2]))
    /\ ContentOf(FirstListed(TextLines[1])) = TextLines[2]

\* the labels the line contains
LabelsIn(line) ==
    {h \in DOMAIN Labels : IsSubstring(Lower(Labels[h]), Lower(line))}

\* C29: a header line that contains several recognized labels opens the
\* section of the label that comes first in the declared list, wherever the
\* labels stand in the line; "WORK EXPERIENCE" opens the section of the
\* earliest listed label it contains
C29_FirstListedLabelWins ==
    Segmented =>
        /\ SectionLabels
               = {DefaultLabel}
                     \cup {Labels[CHOOSE h \in LabelsIn(TextLines[i]) :
                                      \A g \in LabelsIn(TextLines[i]) : h <= g] :
                              i \in {j \in DOMAIN TextLines : IsHeaderLine(TextLines[j])}}
        /\ \A i \in DOMAIN TextLines :
               (/\ IsHeaderLine(TextLines[i])
                /\ i < Len(TextLines)
                /\ IsBodyLine(TextLines[i + 1])
                /\ NoLabelReopened) =>
                   TextLines[i + 1]
                       \in ContentLines(Labels[CHOOSE h \in LabelsIn(TextLines[i]) :
                                                   \A g \in LabelsIn(TextLines[i]) : h <= g])
        /\ (OfResume /\ TextLines = <<<<"W", "o", "r", "k", " ", "E", "x", "p", "e", "r", "i", "e", "n", "c", "e">>, <<"p", "y">>>>) =>
               SectionsOut = <<<<UNKNOWN, <<>>>>, <<EXPERIENCE, <<"p", "y">>>>>>

\* "Experience and Skills" followed by a body line: the resume segmenter
\* files the line under EXPERIENCE, the job description segmenter under
\* SKILLS, each the earlier label of its own list
C29_SeveralLabelsInLine ==
    /\ Segmented
    /\ TextLines = <<<<"E", "x", "p", "e", "r", "i", "e", "n", "c", "e", " ", "a", "n", "d", " ", "S", "k", "i", "l", "l", "s">>, <<"p", "y">>>>
    /\ Cardinality(LabelsIn(TextLines[1])) >= 2
    /\ ContentOf(IF OfResume THEN EXPERIENCE ELSE SKILLS) = <<"p", "y">>

-----------------------------------------------------------------------------
(* Properties of the embedding calls *)

\* the semantic analysis has returned or raised
EmbeddingEnded == op = "semantic_analyze" /\ pc \in {"done", "failed"}

\* the transient failures the embedding model was scripted to have
ScriptedFailures ==
    Cardinality({k \in DOMAIN library.encode : library.encode[k] = "transient_failure"})

\* the attempts made of the encode call that was made last
AttemptsOfLastCall ==
    Cardinality({i \in DOMAIN calls : calls[i] = calls[Len(calls)]})

\* C30: an embedding call that fails transiently is retried, twice by
\* default, and the analysis fails only after the retries are used up: an
\* analysis that failed has made three attempts of the failing call, and an
\* analysis whose embedding model fails at most twice in all succeeds
C30_EmbeddingRetried ==
    EmbeddingEnded =>
        /\ pc = "failed" => AttemptsOfLastCall = 3
        /\ ScriptedFailures <= 2 => pc = "done"

====
